---- MODULE Spec2Model ----
(***************************************************************************)
(* A model of the DSA pipeline (python/dsa/pipeline.py, python/dsa/fetch.py *)
(* and python/dsa_cli.py).                                                 *)
(*                                                                         *)
(* Data frames are column-major records                                    *)
(*     [index |-> labels, columns |-> names, data |-> columns]            *)
(* A cell "ALA, 5" is the tuple of its ", "-separated parts <<"ALA", 5>>,  *)
(* a reference cell "ALA" is <<"ALA">>, and NaN/None is the empty tuple.   *)
(***************************************************************************)
EXTENDS Integers, Sequences, FiniteSets, TLC

VARIABLES
    pc,            \* position of the modelled call / of main()
    uniprotid,     \* name of the reference column (str(uniprotids))
    sequencedata,  \* sort_sequence: the ensemble matrix, edited in place
    seq,           \* sort_sequence: residue codes only, null-reference rows dropped
    IDs,           \* sort_sequence: disagreeing chains still to be processed
    seq_ratio,     \* coverage threshold in percent
    log,           \* history: one entry per chain handled by the offset recovery
    trimsequence,  \* result of sort_sequence
    ca_missing,    \* <<column, pdb_seq_num>> pairs with no CA row in the atom tables
    chain_threshold, \* run_DSA's chain_threshold argument
    dsa,           \* result of run_DSA: [score, log_data, distance]
    mmcif,         \* the mmCIF file of each PDB entry, as the tables read from it
    cifdata,       \* the CifData object built last
    mut_judge,     \* what mutationjudge returned last
    args,          \* the parsed command line
    xml,           \* the UniProt entry
    prep_pdblist,  \* prep: the PDB ids still to be processed
    seqdata,       \* prep: the ensemble matrix built so far
    all_pdblist,   \* prep: the PDB ids by verdict
    norsub_seqdata, \* main: the matrix handed to run_DSA
    result_json,   \* result.json in the output directory
    status_json,   \* status.json in the output directory
    opened,        \* history: the files of the output directory opened for writing
    stderr,        \* history: the STEP lines printed to sys.stderr
    exit_code,     \* exit code of the process, -1 while it runs
    plots,         \* whether the plot files have been written
    error          \* the exception being propagated, "" when none

sortVars == <<uniprotid, sequencedata, seq, IDs, seq_ratio, log, trimsequence,
              ca_missing, chain_threshold, dsa>>

judgeVars == <<mmcif, cifdata, mut_judge>>

cliVars == <<args, xml, prep_pdblist, seqdata, all_pdblist, norsub_seqdata>>

fileVars == <<result_json, status_json, opened, exit_code, plots>>

outVars == <<fileVars, stderr>>

vars == <<pc, sortVars, judgeVars, cliVars, outVars, error>>

(***************************************************************************)
(* Program constants                                                       *)
(***************************************************************************)
MatchThreshold == 10
ScanLimit == 100
CliChainThreshold == 3
DefaultMinStructures == 5

(***************************************************************************)
(* Bounds of the model                                                     *)
(***************************************************************************)
MaxChains == 2
PadLen == 50
MaxStructRows == 2
MaxDifRows == 2
MaxPdb == 3

(***************************************************************************)
(* Cells and data frames                                                   *)
(***************************************************************************)
NaN == <<>>

isnull(x) == x = NaN

\* x.split(", ")[0] if isinstance(x, str) else x
residue(x) == IF isnull(x) THEN NaN ELSE <<x[1]>>

\* int(x.split(", ")[1]) if isinstance(x, str) else x
seq_num(x) == IF isnull(x) THEN NaN ELSE x[2]

Abs(n) == IF n < 0 THEN -n ELSE n

\* the elements of s at the positions in P, in order
Pick(s, P) ==
    LET marked == [i \in 1..Len(s) |-> <<s[i], i \in P>>]
        chosen == SelectSeq(marked, LAMBDA e : e[2])
    IN [i \in 1..Len(chosen) |-> chosen[i][1]]

nrows(df) == Len(df.index)

ncols(df) == Len(df.columns)

take_rows(df, P) ==
    [index |-> Pick(df.index, P),
     columns |-> df.columns,
     data |-> [c \in DOMAIN df.data |-> Pick(df.data[c], P)]]

take_cols(df, C) ==
    [index |-> df.index, columns |-> Pick(df.columns, C), data |-> Pick(df.data, C)]

get_loc(df, name) == CHOOSE c \in DOMAIN df.columns : df.columns[c] = name

column(df, name) == df.data[get_loc(df, name)]

\* DataFrame.map(lambda x: x.split(", ")[0] if isinstance(x, str) else x)
map_residue(df) ==
    [df EXCEPT !.data = [c \in DOMAIN df.data |->
                            [i \in DOMAIN df.data[c] |-> residue(df.data[c][i])]]]

\* Series.shift(n): positional, NaN filled
shift(s, n) ==
    [i \in 1..Len(s) |-> IF (i - n) \in 1..Len(s) THEN s[i - n] ELSE NaN]

\* DataFrame.dropna(subset=first column)
dropna_ref(df) == take_rows(df, {i \in 1..nrows(df) : ~isnull(df.data[1][i])})

\* DataFrame.dropna()
dropna(df) ==
    take_rows(df, {i \in 1..nrows(df) : \A c \in DOMAIN df.data : ~isnull(df.data[c][i])})

\* DataFrame.drop_duplicates(subset=first column): first occurrences are kept
drop_duplicates_ref(df) ==
    take_rows(df, {i \in 1..nrows(df) :
                      \A j \in 1..(i - 1) : df.data[1][j] # df.data[1][i]})

(***************************************************************************)
(* pipeline.py: trim_sequence, _diff, trim2_sequence                       *)
(***************************************************************************)
\* 100 - (item.isnull().sum() / seqlen * 100) < seq_ratio, in exact arithmetic;
\* for seqlen = 0 the quotient is nan and the comparison is false.
below_ratio(s, seqlen, ratio) ==
    LET nullcount == Cardinality({i \in DOMAIN s : isnull(s[i])})
    IN seqlen > 0 /\ (seqlen - nullcount) * 100 < ratio * seqlen

trim_sequence(df, ratio) ==
    LET d1 == dropna_ref(df)
        seqlen == nrows(d1)
        delchain == {c \in DOMAIN d1.data : below_ratio(d1.data[c], seqlen, ratio)}
    IN dropna(take_cols(d1, DOMAIN d1.data \ delchain))

_diff(df1, df2, n) ==
    LET d == shift(df2, n)
        valid == {i \in 1..Len(df1) : ~isnull(df1[i]) /\ ~isnull(d[i])}
        kept == {i \in valid : \A j \in valid : j < i => df1[j] # df1[i]}
    IN Cardinality({i \in kept : df1[i] = d[i]})

MutTrim2Sequence(df) ==
    take_rows(df, {i \in 1..nrows(df) :
                      \A c \in 2..ncols(df) : \A j \in (i + 1)..nrows(df) :
                          seq_num(df.data[c][j]) # seq_num(df.data[c][i])})
trim2_sequence(df) ==
    LET dup(c) == {i \in 1..nrows(df) :
                      \E j \in 1..(i - 1) : seq_num(df.data[c][j]) = seq_num(df.data[c][i])}
        duplicate_indices == UNION {dup(c) : c \in 2..ncols(df)}
    IN take_rows(df, (1..nrows(df)) \ duplicate_indices)

(***************************************************************************)
(* pipeline.py: sort_sequence                                              *)
(***************************************************************************)
\* lines 52-63: the chains that disagree with the reference on some row of the
\* coverage-trimmed, reference-deduplicated matrix, in the order found
disagreeing(sq, ratio) ==
    LET trimdata == drop_duplicates_ref(trim_sequence(sq, ratio))
        differs(c, i) == trimdata.data[c][i] # trimdata.data[1][i]
        F[i \in 0..nrows(trimdata)] ==
            IF i = 0 THEN <<>>
            ELSE LET found == F[i - 1]
                     done == {found[k] : k \in DOMAIN found}
                     new == {c \in 2..ncols(trimdata) :
                                trimdata.columns[c] \notin done /\ differs(c, i)}
                 IN found \o Pick(trimdata.columns, new)
    IN F[nrows(trimdata)]

\* line 68 and line 75: unique > 10
MutAccepts(unique) == unique > MatchThreshold - 1
Accepts(unique) == unique > MatchThreshold

\* line 72: while unique < 10 and num < 100
MutScanContinues(unique, num) == unique < MatchThreshold /\ num < 50
ScanContinues(unique, num) == unique < MatchThreshold /\ num < ScanLimit

\* the value of num in iteration i of the loop: 1, -1, 2, -2, ... (line 70, and
\* line 74: num = (-num) + 1 if num < 0 else -num)
offset_at(i) == IF i % 2 = 1 THEN (i + 1) \div 2 ELSE -(i \div 2)

\* lines 70-74. Iteration i evaluates unique = _diff(..., offset_at(i)) and the
\* loop goes on to iteration i + 1 when the condition of line 72 holds of that
\* unique and of the next num. first_stop finds the last iteration made by
\* halving the range of iterations, so that no offset after it is evaluated;
\* tried records the offsets evaluated, in order.
RECURSIVE first_stop(_, _, _, _)
first_stop(uniseq, difseq, lo, hi) ==
    IF lo = hi
    THEN IF ScanContinues(_diff(uniseq, difseq, offset_at(lo)), offset_at(lo + 1))
         THEN 0 ELSE lo
    ELSE LET mid == (lo + hi) \div 2
             left == first_stop(uniseq, difseq, lo, mid)
         IN IF left # 0 THEN left ELSE first_stop(uniseq, difseq, mid + 1, hi)

scan(uniseq, difseq) ==
    IF ~ScanContinues(0, 1)
    THEN [num |-> 1, unique |-> 0, tried |-> <<>>]
    ELSE LET last == first_stop(uniseq, difseq, 1, 2 * ScanLimit)
         IN [num |-> offset_at(last + 1),
             unique |-> _diff(uniseq, difseq, offset_at(last)),
             tried |-> [i \in 1..last |-> offset_at(i)]]

replace_column(df, name, s) ==
    [df EXCEPT !.data = [c \in DOMAIN df.data |->
                            IF c = get_loc(df, name) THEN s ELSE df.data[c]]]

drop_column(df, name) == take_cols(df, DOMAIN df.data \ {get_loc(df, name)})

\* lines 66-85: the body of "for ID in IDs"; applied_shift is the shift of line 76
recover(df, sq, uid, ID) ==
    LET uniseq == column(sq, uid)
        difseq == column(sq, ID)
        unique0 == _diff(uniseq, difseq, 0)
        r == scan(uniseq, difseq)
        applied_shift(num) == IF num > 0 THEN (-num) + 1 ELSE -num
    IN IF Accepts(unique0)
       THEN [df |-> df,
             entry |-> [ID |-> ID, unique0 |-> unique0, tried |-> <<>>,
                        unique |-> unique0, outcome |-> "kept", n |-> 0]]
       ELSE IF Accepts(r.unique)
       THEN [df |-> replace_column(df, ID, shift(column(df, ID), applied_shift(r.num))),
             entry |-> [ID |-> ID, unique0 |-> unique0, tried |-> r.tried,
                        unique |-> r.unique, outcome |-> "shifted",
                        n |-> applied_shift(r.num)]]
       ELSE [df |-> drop_column(df, ID),
             entry |-> [ID |-> ID, unique0 |-> unique0, tried |-> r.tried,
                        unique |-> r.unique, outcome |-> "dropped", n |-> 0]]

\* lines 86-88
MutFinish(df, ratio) == drop_duplicates_ref(trim2_sequence(trim_sequence(df, ratio)))
finish(df, ratio) == trim2_sequence(trim_sequence(df, ratio))

RECURSIVE recover_all(_, _, _, _)
recover_all(df, sq, uid, ids) ==
    IF ids = <<>> THEN df
    ELSE recover_all(recover(df, sq, uid, Head(ids)).df, sq, uid, Tail(ids))

sort_sequence(uid, df, ratio) ==
    LET sq == dropna_ref(map_residue(df))
    IN finish(recover_all(df, sq, uid, disagreeing(sq, ratio)), ratio)

(***************************************************************************)
(* fetch.py: CifData.__init__ (the tables mutationjudge reads) and         *)
(* CifData.mutationjudge                                                   *)
(***************************************************************************)
Range(s) == {s[i] : i \in DOMAIN s}

Excluded == {"expression tag", "linker", "conflict", "microgeterogeneity"}

\* list.index: 0-based position of the first occurrence
index_of(l, x) == (CHOOSE k \in DOMAIN l : l[k] = x /\ \A j \in 1..(k - 1) : l[j] # x) - 1

\* lines 171-176 and 239-240. The first loop writes, at label i, the index of the
\* strand of row i in pdb_strand_id; sort_values reorders the rows and keeps the
\* labels; the second loop enumerates the strands in the new order and writes
\* the index in chainid of the strand at position j at label j.
sort_index_rows(table, scheme) ==
    LET pdb_strand_id == [k \in DOMAIN scheme |-> scheme[k].strand_id]
        chainid == pdb_strand_id
        first == [i \in DOMAIN table |-> index_of(pdb_strand_id, table[i].strand_id)]
        before(i, k) == first[i] < first[k] \/ (first[i] = first[k] /\ i < k)
        at(j) == CHOOSE k \in DOMAIN table :
                    Cardinality({i \in DOMAIN table : before(i, k)}) = j - 1
        second == [j \in DOMAIN table |-> index_of(chainid, table[at(j)].strand_id)]
    IN [j \in DOMAIN table |->
           [label |-> at(j) - 1, sort_index |-> second[at(j)]] @@ table[at(j)]]

\* lines 153-250. A file is the tables MMCIF2Dict reads from it:
\*   struct_ref_seq      rows [strand_id, accession, seq_align_beg, seq_align_end]
\*   struct_ref_seq_dif  rows [strand_id, seq_num, db_seq_num, details]
\*   poly_seq_scheme     rows [mon_id, seq_num, strand_id], every hetero flag "n"
\* The files drawn spell accessions in upper case and details in lower case.
\* The rows of the struct_ref_seq of the object are in the order sort_values
\* leaves them in (rows of equal sort_index keep their order) and carry their
\* label and the sort_index that lines 239-240 leave at that label.
CifData(file) ==
    [struct_ref_seq |-> sort_index_rows(file.struct_ref_seq, file.poly_seq_scheme),
     struct_ref_seq_dif |->
         SelectSeq(file.struct_ref_seq_dif, LAMBDA d : d.details \notin Excluded),
     chain |-> [k \in DOMAIN file.poly_seq_scheme |->
                   IF file.poly_seq_scheme[k].mon_id = "?" THEN NaN
                   ELSE <<file.poly_seq_scheme[k].mon_id, file.poly_seq_scheme[k].seq_num>>],
     chainid |-> [k \in DOMAIN file.poly_seq_scheme |-> file.poly_seq_scheme[k].strand_id]]

\* len(l) != len(set(l)); DataFrame.duplicated().sum() != 0
has_duplicates(l) == \E i, j \in DOMAIN l : i < j /\ l[i] = l[j]

\* lines 310-316, for strand i
MutStrandDelins(mdif_pd, i) ==
    LET strand_mdif_pd == SelectSeq(mdif_pd, LAMBDA d : d.strand_id = i)
        seq_num_list == [k \in DOMAIN strand_mdif_pd |-> strand_mdif_pd[k].seq_num]
    IN has_duplicates(seq_num_list)
strand_delins(mdif_pd, i) ==
    LET strand_mdif_pd == SelectSeq(mdif_pd, LAMBDA d : d.strand_id = i)
        seq_num_list == [k \in DOMAIN strand_mdif_pd |-> strand_mdif_pd[k].seq_num]
        db_seq_num_list == [k \in DOMAIN strand_mdif_pd |-> strand_mdif_pd[k].db_seq_num]
    IN has_duplicates(seq_num_list) \/ has_duplicates(db_seq_num_list)

\* lines 275-317
mutationjudge(obj, ids) ==
    LET m_pd == [k \in DOMAIN obj.struct_ref_seq |->
                    [strand_id |-> obj.struct_ref_seq[k].strand_id,
                     accession |-> obj.struct_ref_seq[k].accession]]
        unim_pd == SelectSeq(m_pd, LAMBDA r : r.accession \in Range(ids))
        m_id == [k \in DOMAIN unim_pd |-> unim_pd[k].strand_id]
        mdif_pd == SelectSeq(obj.struct_ref_seq_dif, LAMBDA d : d.strand_id \in Range(m_id))
        mdif_pd_details == {mdif_pd[k].details : k \in DOMAIN mdif_pd}
        s_list == [k \in DOMAIN m_pd |-> m_pd[k].strand_id]
    IN IF Len(unim_pd) = 0 THEN "UniProt ID mismatch"
       ELSE IF has_duplicates(unim_pd) THEN "chimera"
       ELSE IF Len(mdif_pd) = 0 THEN "normal"
       ELSE IF "engineered mutation" \in mdif_pd_details THEN "substitution"
       ELSE IF "microheterogeneity" \in mdif_pd_details THEN "normal"
       ELSE IF has_duplicates(s_list) THEN "chimera"
       ELSE IF \E k \in DOMAIN m_id : strand_delins(mdif_pd, m_id[k]) THEN "delins"
       ELSE "substitution"


(***************************************************************************)
(* fetch.py: CifData.getsequence                                           *)
(***************************************************************************)
\* int(i) of the position strings the files use
Numerals == <<"1", "2", "3", "4", "5", "6", "7", "8", "9", "10", "11", "12", "13">>

int(str) == CHOOSE n \in DOMAIN Numerals : Numerals[n] = str

\* Series.drop_duplicates / unique: first occurrences, in order
unique_values(l) == Pick(l, {k \in DOMAIN l : \A j \in 1..(k - 1) : l[j] # l[k]})

\* lines 367-380: for each seq_num carried by several descriptors, None cells are
\* inserted after the residue of that number, one fewer than the descriptors
RECURSIVE insert_none(_, _, _)
insert_none(chain, dup_mutat, values) ==
    IF values = <<>> THEN chain
    ELSE LET i == Head(values)
             num == Len(SelectSeq(dup_mutat, LAMBDA d : d.seq_num = i)) - 1
             chain_num == [k \in DOMAIN chain |-> seq_num(chain[k])]
             index == index_of(chain_num, int(i)) + 1
             edited == SubSeq(chain, 1, index) \o [k \in 1..num |-> NaN]
                          \o SubSeq(chain, index + 1, Len(chain))
         IN insert_none(edited, dup_mutat, Tail(values))

\* lines 382-404: of the descriptors sharing a db_seq_num, the residues of all
\* but the first are removed
remove_inserted(chain, dup_mutat) ==
    LET values == unique_values([k \in DOMAIN dup_mutat |-> dup_mutat[k].db_seq_num])
        rest(v) == Tail(SelectSeq(dup_mutat, LAMBDA d : d.db_seq_num = v))
        insertion == UNION {{int(rest(values[k])[j].seq_num) : j \in DOMAIN rest(values[k])}
                            : k \in DOMAIN values}
    IN SelectSeq(chain, LAMBDA x : isnull(x) \/ x[2] \notin insertion)

\* lines 351-352: chain[index:index] = [None] * int(i) for each (index, i) in
\* turn; the indexes are those of the chain before the first insertion
RECURSIVE insert_at(_, _)
insert_at(chain, deletion) ==
    IF deletion = <<>> THEN chain
    ELSE LET index == Head(deletion)[1]
             i == Head(deletion)[2]
         IN insert_at(SubSeq(chain, 1, index) \o [k \in 1..i |-> NaN]
                          \o SubSeq(chain, index + 1, Len(chain)),
                      Tail(deletion))

\* lines 340-352: the strides of the pdb_seq_num that are not 1, each with its
\* index; the stride of the first cell and a stride from or to None are nan
fill_gaps(chain) ==
    LET strided == {k \in 2..Len(chain) :
                       /\ ~isnull(chain[k]) /\ ~isnull(chain[k - 1])
                       /\ seq_num(chain[k]) - seq_num(chain[k - 1]) # 1}
        at == Pick([k \in DOMAIN chain |-> k], strided)
    IN insert_at(chain, [j \in DOMAIN at |->
                           <<at[j] - 1, seq_num(chain[at[j]]) - seq_num(chain[at[j] - 1])>>])

\* lines 358-364: for i in chain, for n in insertion, both lists losing elements
\* while they are iterated. p and q count the elements the two iterators have
\* passed, i is the element the outer one holds (NaN before it fetches one);
\* chain.remove(i) raises ValueError when i is no longer in the chain.
RECURSIVE remove_insertions(_, _, _, _, _)
remove_insertions(chain, insertion, p, q, i) ==
    LET remove(l, x) ==
            SubSeq(l, 1, index_of(l, x)) \o SubSeq(l, index_of(l, x) + 2, Len(l))
    IN
    IF isnull(i)
    THEN IF p >= Len(chain) THEN [chain |-> chain, raised |-> ""]
         ELSE IF isnull(chain[p + 1]) THEN remove_insertions(chain, insertion, p + 1, 0, NaN)
         ELSE remove_insertions(chain, insertion, p + 1, 0, chain[p + 1])
    ELSE IF q >= Len(insertion) THEN remove_insertions(chain, insertion, p, 0, NaN)
    ELSE IF insertion[q + 1] # seq_num(i) THEN remove_insertions(chain, insertion, p, q + 1, i)
    ELSE IF i \notin Range(chain) THEN [chain |-> chain, raised |-> "ValueError"]
    ELSE remove_insertions(remove(chain, i), remove(insertion, insertion[q + 1]), p, q + 1, i)

\* the descriptors of a deletion (lines 337-338) and, of the others, those of an
\* insertion (line 355)
is_deletion(d) == d.seq_num = "?"
is_insertion(d) == ~is_deletion(d) /\ d.db_seq_num = "?"

\* lines 331-404 when line 364 raises no ValueError
edit_chain(chain, mutat) ==
    LET deletion == SelectSeq(mutat, is_deletion)
        chain0 == IF deletion # <<>> THEN fill_gaps(chain) ELSE chain
        inserted == SelectSeq(mutat, is_insertion)
        insertion == [k \in DOMAIN inserted |-> int(inserted[k].seq_num)]
        chain00 == remove_insertions(chain0, insertion, 0, 0, NaN).chain
        mutat_info == SelectSeq(mutat, LAMBDA d : ~is_deletion(d) /\ ~is_insertion(d))
        seq_nums == [k \in DOMAIN mutat_info |-> mutat_info[k].seq_num]
        dup1 == {k \in DOMAIN mutat_info :
                    \E j \in DOMAIN mutat_info : j # k /\ seq_nums[j] = seq_nums[k]}
        dup_mutat1 == Pick(mutat_info, dup1)
        chain1 == insert_none(chain00, dup_mutat1,
                              unique_values([k \in DOMAIN dup_mutat1 |-> dup_mutat1[k].seq_num]))
        mutat_info1 == Pick(mutat_info, DOMAIN mutat_info \ dup1)
        dup2 == {k \in DOMAIN mutat_info1 :
                    \E j \in DOMAIN mutat_info1 :
                        j # k /\ mutat_info1[j].db_seq_num = mutat_info1[k].db_seq_num}
    IN remove_inserted(chain1, Pick(mutat_info1, dup2))

Max(S) == CHOOSE m \in S : \A n \in S : n <= m

Min(S) == CHOOSE m \in S : \A n \in S : m <= n

\* a frame of the given columns, each padded with NaN to the longest of them
frame_of(names, cols) ==
    LET n == Max({0} \cup {Len(cols[c]) : c \in DOMAIN cols})
    IN [index |-> [i \in 1..n |-> i - 1],
        columns |-> names,
        data |-> [c \in DOMAIN cols |->
                     [i \in 1..n |-> IF i <= Len(cols[c]) THEN cols[c][i] ELSE NaN]]]

\* line 377: chain_num[chain_num == int(i)].index[0] raises IndexError when no
\* residue of the chain has the seq_num that several descriptors carry
getsequence_raises(obj, ids) ==
    \E r \in Range(obj.struct_ref_seq) :
        /\ r.accession \in Range(ids)
        /\ LET sort_index == r.sort_index
               chain == SubSeq(obj.chain, sort_index + r.seq_align_beg,
                               sort_index + r.seq_align_end)
               mutat_info == SelectSeq(obj.struct_ref_seq_dif,
                                       LAMBDA d : d.strand_id = r.strand_id)
           IN \E j, k \in DOMAIN mutat_info :
                 /\ j < k
                 /\ mutat_info[j].seq_num = mutat_info[k].seq_num
                 /\ \A n \in DOMAIN chain :
                       isnull(chain[n]) \/ seq_num(chain[n]) # int(mutat_info[j].seq_num)

\* lines 319-416: one column per strand matching the accessions
getsequence(obj, ids, pdbid) ==
    LET matching == SelectSeq(obj.struct_ref_seq, LAMBDA r : r.accession \in Range(ids))
        struct == Pick(matching, {k \in DOMAIN matching :
                          \A j \in 1..(k - 1) : matching[j].strand_id # matching[k].strand_id})
        chain_of_row(row) ==
            LET sort_index == row.sort_index
                align_beg == sort_index + row.seq_align_beg - 1
                align_end == sort_index + row.seq_align_end
                mutat_info == SelectSeq(obj.struct_ref_seq_dif,
                                        LAMBDA d : d.strand_id = row.strand_id)
            IN edit_chain(SubSeq(obj.chain, align_beg + 1, align_end), mutat_info)
    IN frame_of([k \in DOMAIN struct |-> <<pdbid, struct[k].strand_id>>],
                [k \in DOMAIN struct |-> chain_of_row(struct[k])])

(***************************************************************************)
(* fetch.py: UniprotData. The entry is a record                            *)
(*   [accession, sequence, dbReference]                                    *)
(* whose dbReference elements of type PDB are records                      *)
(*   [id, method, resolution, position]                                    *)
(* resolution is NaN where getpdbdata stores None (an NMR element), and    *)
(* position is the sequence of the <<beg, end>> of its chain segments.     *)
(***************************************************************************)
\* lines 13-22: pdbdata is not an attribute of the new object
UniprotData(x) == [xml |-> x, pdbdata |-> [set |-> FALSE, data |-> <<>>]]

get_id(obj) == obj.xml.accession

fasta(obj) == obj.xml.sequence

\* lines 48-68: the object after the call
getpdbdata(obj, method) ==
    [obj EXCEPT !.pdbdata =
        [set |-> TRUE,
         data |-> SelectSeq(obj.xml.dbReference,
                            LAMBDA e : method = "" \/ e.method = method)]]

\* lines 70-75: the object after the call; the table is built by the first call only
after_pdblist(obj, method) == IF obj.pdbdata.set THEN obj ELSE getpdbdata(obj, method)

pdblist(obj, method) ==
    LET d == after_pdblist(obj, method).pdbdata.data IN [k \in DOMAIN d |-> d[k].id]

\* lines 77-95
position(obj, pdbid) ==
    LET e == CHOOSE e \in Range(obj.pdbdata.data) : e.id = pdbid
    IN <<Min({e.position[k][1] : k \in DOMAIN e.position}),
         Max({e.position[k][2] : k \in DOMAIN e.position})>>

\* pdbdata.at["resolution", pdbid]
resolution(obj, pdbid) == (CHOOSE e \in Range(obj.pdbdata.data) : e.id = pdbid).resolution

\* pipeline.py lines 186-189, 210-213, 291-294; negative_pdbid "" is the empty
\* list, otherwise the list re.split gives; the ids drawn are in upper case
without_negative(l, negative) ==
    IF negative = <<>> THEN l ELSE SelectSeq(l, LAMBDA item : item \notin Range(negative))

(***************************************************************************)
(* pipeline.py: run_DSA, the chain_threshold branch                        *)
(***************************************************************************)
\* line 297
trimseqcol(trimmed) == Tail(trimmed.columns)

\* line 299: len(trimseqcol) > chain_threshold - 1
MutEnoughChains(trimmed, threshold) == Len(trimseqcol(trimmed)) > threshold
EnoughChains(trimmed, threshold) == Len(trimseqcol(trimmed)) > threshold - 1

(***************************************************************************)
(* fetch.py: convert_three                                                 *)
(***************************************************************************)
dic ==
    [A |-> "ALA", B |-> "D|N", C |-> "CYS", D |-> "ASP", E |-> "GLU", F |-> "PHE",
     G |-> "GLY", H |-> "HIS", I |-> "ILE", K |-> "LYS", L |-> "LEU", M |-> "MET",
     N |-> "ASN", O |-> "HYP", P |-> "PRO", Q |-> "GLN", R |-> "ARG", S |-> "SER",
     T |-> "THR", U |-> "SEC", V |-> "VAL", W |-> "TRP", X |-> "any", Y |-> "TYR",
     Z |-> "E|Q"]

convert_three(letters) == [i \in 1..Len(letters) |-> dic[letters[i]]]

(***************************************************************************)
(* pipeline.py: getcoord, getdistance2, getscore as far as the row counts  *)
(***************************************************************************)
\* lines 95-128: a row survives when every chain has a CA for its pdb_seq_num
getcoord(trimmed, missing) ==
    take_rows(trimmed, {i \in 1..nrows(trimmed) :
        \A c \in 2..ncols(trimmed) :
            <<trimmed.columns[c], seq_num(trimmed.data[c][i])>> \notin missing})

\* lines 144-156: one row per combination of two rows
npairs(atomcoord) == (nrows(atomcoord) * (nrows(atomcoord) - 1)) \div 2

\* itertools.combinations(l, 2): the pairs in the order produced, grouped by their
\* first member (group i holds the pairs of l[i] with each later element)
combinations(l) ==
    [i \in 1..(Len(l) - 1) |-> [j \in 1..(Len(l) - i) |-> <<l[i], l[i + j]>>]]

\* lines 146-149: the position-pair column, str(int(a) + 1) + ", " + str(int(b) + 1)
pair_labels(atomcoord) ==
    LET c == combinations(atomcoord.index)
    IN [i \in DOMAIN c |-> [j \in DOMAIN c[i] |-> <<c[i][j][1] + 1, c[i][j][2] + 1>>]]

\* pd.DataFrame(): pair is the position-pair column, grouped as combinations is
NoTable == [rows |-> 0, pair |-> <<>>]

\* lines 314-328: "".join(char for char in reso ...) raises TypeError when the
\* resolution of the PDB entry of a surviving chain is None
no_resolution(trimmed, unidata) ==
    \E c \in 2..ncols(trimmed) : isnull(resolution(unidata, trimmed.columns[c][1]))

\* np.mean of the list of the values f takes on S, as sum and count
RECURSIVE sum(_, _)
sum(f, S) ==
    IF S = {} THEN 0 ELSE LET x == CHOOSE x \in S : TRUE IN f[x] + sum(f, S \ {x})

\* lines 319-321: float of the digits and dots of the text, in hundredths
float_of_digits(reso) == reso[1]

\* lines 323-325: Decimal(str(mean)).quantize(Decimal("0.01"), ROUND_HALF_UP) of a
\* mean of total / count hundredths, in exact arithmetic
quantize(total, count) == (2 * total + count) \div (2 * count)

\* lines 315-328 when no resolution is None: the average in hundredths, NaN for None
reso_ave(trimmed, unidata) ==
    LET pdbids == {trimmed.columns[c][1] : c \in 2..ncols(trimmed)}
        numeric == {id \in pdbids : ~isnull(resolution(unidata, id))}
        reso_list == [id \in numeric |-> float_of_digits(resolution(unidata, id))]
    IN IF numeric = {} THEN NaN ELSE quantize(sum(reso_list, numeric), Cardinality(numeric))

\* lines 297-405; unidata is the object of line 284 after pdblist (line 289).
\* raised names the exception that ends the call, "" when it returns.
analyse(uid, trimmed, threshold, missing, unidata) ==
    LET atomcoord == getcoord(trimmed, missing)
    IN IF EnoughChains(trimmed, threshold)
       THEN [score |-> [rows |-> npairs(atomcoord), pair |-> pair_labels(atomcoord)],
             log_data |-> [uniprot_id |-> uid,
                           chains |-> Len(trimseqcol(trimmed)),
                           length |-> nrows(trimmed),
                           resolution |-> reso_ave(trimmed, unidata),
                           pdb_ids |-> {trimmed.columns[c][1] : c \in 2..ncols(trimmed)}],
             distance |-> [rows |-> npairs(atomcoord), pair |-> pair_labels(atomcoord)],
             raised |-> IF no_resolution(trimmed, unidata) THEN "TypeError" ELSE ""]
       ELSE [score |-> NoTable,
             log_data |-> [uniprot_id |-> uid, error |-> "Less than 3 chains"],
             distance |-> NoTable,
             raised |-> ""]

\* DataFrame.empty
empty(table) == table.rows = 0

(***************************************************************************)
(* Python floats (IEEE 754 binary64) as far as getscore and the cis        *)
(* analysis need them. A positive float is [m |-> bits, e |-> n]: m is the *)
(* 53-bit significand, most significant bit (a 1) first, and the float is  *)
(* m * 2^e. Sums and quotients are rounded to nearest, ties to even.       *)
(***************************************************************************)
Precision == 53

zeros(n) == [i \in 1..n |-> 0]

\* float.fromhex("0x1.<digits>p<p>") for 13 hexadecimal digits
fromhex(digits, p) ==
    [m |-> <<1>> \o [i \in 1..(4 * Len(digits)) |->
                        (digits[(i + 3) \div 4] \div 2^(3 - ((i - 1) % 4))) % 2],
     e |-> p - (Precision - 1)]

\* 0.0
Zero == [m |-> zeros(Precision), e |-> 0]

\* the bits are added and divided a word at a time; a quotient is computed
\* to a word more than its bits before it is rounded
Word == 16

to_bits(v, n) == [i \in 1..n |-> (v \div 2^(n - i)) % 2]

\* the sequences of a sequence, one after the other
RECURSIVE flatten(_)
flatten(groups) == IF groups = <<>> THEN <<>> ELSE Head(groups) \o flatten(Tail(groups))

\* the bits from the first 1 on
significant(bits) ==
    LET lead == CHOOSE i \in DOMAIN bits : bits[i] = 1 /\ \A j \in 1..(i - 1) : bits[j] = 0
    IN SubSeq(bits, lead, Len(bits))

\* word w of the bits, the most significant first, of words words
word_of(bits, w, words) ==
    LET all == zeros(words * Word - Len(bits)) \o bits
    IN sum([i \in 1..Word |-> all[(w - 1) * Word + i] * 2^(Word - i)], 1..Word)

\* the sum of two bit strings, without leading zeros
bits_add(a, b) ==
    LET words == (Max({Len(a), Len(b)}) + Word - 1) \div Word
        total[w \in 1..(words + 1)] ==
            IF w = words + 1 THEN 0
            ELSE word_of(a, w, words) + word_of(b, w, words) + total[w + 1] \div 2^Word
    IN significant(<<total[1] \div 2^Word>>
                   \o flatten([w \in 1..words |-> to_bits(total[w] % 2^Word, Word)]))

\* bits (leading bit 1), followed by further bits that are not all zero when
\* sticky, rounded to Precision bits; shift is the number of bits dropped
nearest_even(bits, sticky) ==
    LET len == Len(bits)
        top == SubSeq(bits, 1, Precision)
        rest == sticky \/ \E i \in (Precision + 2)..len : bits[i] = 1
        up == bits_add(top, <<1>>)
    IN IF len <= Precision
       THEN [m |-> bits \o zeros(Precision - len), shift |-> len - Precision]
       ELSE IF bits[Precision + 1] = 1 /\ (rest \/ top[Precision] = 1)
       THEN [m |-> SubSeq(up, 1, Precision), shift |-> len - Precision + (Len(up) - Precision)]
       ELSE [m |-> top, shift |-> len - Precision]

\* a / n for a count n
float_div(a, n) ==
    LET bits == a.m \o zeros(Word)
        words == (Len(bits) + Word - 1) \div Word
        rem[w \in 0..words] ==
            IF w = 0 THEN 0 ELSE (rem[w - 1] * 2^Word + word_of(bits, w, words)) % n
        quot == flatten([w \in 1..words |->
                    to_bits((rem[w - 1] * 2^Word + word_of(bits, w, words)) \div n, Word)])
        r == nearest_even(significant(quot), rem[words] # 0)
    IN [m |-> r.m, e |-> a.e - Word + r.shift]

\* a <= b
float_le(a, b) ==
    IF a.e # b.e THEN a.e < b.e
    ELSE \A i \in 1..Precision : a.m[i] > b.m[i] => \E j \in 1..(i - 1) : a.m[j] < b.m[j]

\* the sum of the values, added one after the other
RECURSIVE float_sum(_)
float_sum(values) ==
    LET a == float_sum(SubSeq(values, 1, Len(values) - 1))
        b == values[Len(values)]
        hi == IF a.e >= b.e THEN a ELSE b
        lo == IF a.e >= b.e THEN b ELSE a
        r == nearest_even(bits_add(hi.m \o zeros(hi.e - lo.e), lo.m), FALSE)
    IN IF Len(values) = 1 THEN values[1] ELSE [m |-> r.m, e |-> lo.e + r.shift]

(***************************************************************************)
(* pipeline.py: getscore and the cis analysis of run_DSA. A distance table *)
(* with its distances is [rows, pair, values]: values[r] is the tuple of   *)
(* the distances of pair row r, one for each chain.                        *)
(***************************************************************************)
\* Series.mean(): sum / count
nanmean(values) == float_div(float_sum(values), Len(values))

\* Series.std(ddof): sqrt(sum((avg - x) ** 2) / (count - ddof)). It is 0.0 exactly
\* when every difference avg - x is; any other standard deviation is kept as the
\* values it is the standard deviation of.
nanstd(values, ddof) ==
    LET avg == nanmean(values)
    IN IF \A i \in DOMAIN values : values[i] = avg THEN Zero
       ELSE [std_of |-> values, ddof |-> ddof]

\* line 169: 0.0001
Floor == fromhex(<<10, 3, 6, 14, 2, 14, 11, 1, 12, 4, 3, 2, 13>>, -14)

\* lines 164-179: the ddof passed is not the one used. A score is kept as the
\* mean and the std it is the quotient of.
getscore(distance, ddof) ==
    LET means == [r \in DOMAIN distance.values |-> nanmean(distance.values[r])]
        std(r) == nanstd(distance.values[r], 0)
        stds == [r \in DOMAIN distance.values |-> IF std(r) = Zero THEN Floor ELSE std(r)]
    IN [rows |-> distance.rows,
        pair |-> distance.pair,
        mean |-> means,
        std |-> stds,
        score |-> [r \in DOMAIN means |-> [mean |-> means[r], std |-> stds[r]]]]

\* line 388
PairListLimit == 20

\* line 363: a row counted in mix
MutIsMix(cis_cnt, trans_cnt) == cis_cnt >= 1
is_mix(cis_cnt, trans_cnt) == cis_cnt >= 1 /\ trans_cnt >= 1

\* lines 333-390: cis_info. The mean and the standard deviation of several
\* floats are kept as the floats they are taken of.
cis_info(distance, cis_threshold) ==
    LET cis(r) == {c \in DOMAIN distance.values[r] :
                      float_le(distance.values[r][c], cis_threshold)}
        cis_index == {r \in DOMAIN distance.values : cis(r) # {}}
        cis_cnt(r) == Cardinality(cis(r))
        trans_cnt(r) == Len(distance.values[r]) - Cardinality(cis(r))
        all_cis_dist == Pick(flatten(distance.pair), {r \in cis_index : trans_cnt(r) = 0})
        mix == Cardinality({r \in cis_index : is_mix(cis_cnt(r), trans_cnt(r))})
        cis_score == getscore([distance EXCEPT !.values = Pick(@, cis_index)], 0)
        cis_num == Len(all_cis_dist)
    IN IF cis_index = {}
       THEN [cis_dist_mean |-> Zero, cis_dist_std |-> Zero, cis_score_mean |-> Zero,
             cis_num |-> 0, mix |-> 0]
       ELSE [cis_dist_mean |-> [mean_of |-> cis_score.mean],
             cis_dist_std |-> IF Len(cis_score.mean) = 1 THEN Zero
                              ELSE [std_of |-> cis_score.mean, ddof |-> 1],
             cis_score_mean |-> [mean_of |-> cis_score.score],
             cis_num |-> cis_num,
             mix |-> mix,
             threshold |-> cis_threshold]
            @@ (IF cis_num > 0
                THEN [cis_pair_list |-> SubSeq(all_cis_dist, 1, Min({PairListLimit, cis_num})),
                      cis_pair_total |-> Len(all_cis_dist)]
                ELSE [cis_num |-> cis_num])

(***************************************************************************)
(* pipeline.py: count_pdb and prep                                         *)
(***************************************************************************)
\* lines 182-190
count_pdb(x, method, negative) ==
    Len(without_negative(pdblist(UniprotData(x), method), negative)) >= 1

\* pd.concat([a, b], axis=1) of frames indexed 0..n-1
concat_columns(a, b) == frame_of(a.columns \o b.columns, a.data \o b.data)

\* lines 243-247: pd.concat([df_beg, seq, df_end]) and reset_index
MutPadRows(sq, beg, end, len_seqdata) ==
    LET before == [i \in 1..beg |-> NaN]
        after == [i \in 1..(len_seqdata - end) |-> NaN]
    IN frame_of(sq.columns, [c \in DOMAIN sq.data |-> before \o sq.data[c] \o after])
pad_rows(sq, beg, end, len_seqdata) ==
    LET before == [i \in 1..(beg - 1) |-> NaN]
        after == [i \in 1..(len_seqdata - end) |-> NaN]
    IN frame_of(sq.columns, [c \in DOMAIN sq.data |-> before \o sq.data[c] \o after])

NoLists == [nor |-> <<>>, sub |-> <<>>, chi |-> <<>>, din |-> <<>>]

\* lines 229-238
classify(lists, pdbid, verdict) ==
    CASE verdict = "normal" -> [lists EXCEPT !.nor = Append(@, pdbid)]
      [] verdict = "substitution" -> [lists EXCEPT !.sub = Append(@, pdbid)]
      [] verdict = "chimera" -> [lists EXCEPT !.chi = Append(@, pdbid)]
      [] verdict = "delins" -> [lists EXCEPT !.din = Append(@, pdbid)]
      [] OTHER -> lists

\* line 239: else: continue
skipped(verdict) == verdict \notin {"normal", "substitution", "chimera", "delins"}

(***************************************************************************)
(* dsa_cli.py: the selection of the columns handed to run_DSA              *)
(***************************************************************************)
\* str(uniprotids) of a one-element list
str(ids) == <<"['" \o ids[1] \o "']">>

\* DataFrame.filter(like=uniprot): the columns whose name contains the accession;
\* of the names of the matrix, a PDB id and a strand id are too short to, and
\* str(uniprotids) does
\* lines 191-193
MutPdbtuple(lists) == lists.nor
pdbtuple(lists) == lists.nor \o lists.sub

\* line 195
MutTooFew(found, min_structures) == Len(found) < min_structures - 1
TooFew(found, min_structures) == Len(found) < min_structures

\* columns.str.startswith(pdbtuple): a name "1AKI A" starts with a four-character
\* PDB id exactly when its first part is that id
MutStartswith(name, prefixes) == Len(name) = 2
startswith(name, prefixes) == name[1] \in Range(prefixes)

\* lines 188, 248-249
select_norsub(df, uniprot, prefixes) ==
    LET like(name) == \E k \in DOMAIN name : name[k] = "['" \o uniprot \o "']"
        seqdata1 == take_cols(df, {c \in DOMAIN df.columns : like(df.columns[c])})
        seqdata2 == take_cols(df, {c \in DOMAIN df.columns :
                                           startswith(df.columns[c], prefixes)})
    IN concat_columns(seqdata1, seqdata2)

(***************************************************************************)
(* Inputs of sort_sequence: a reference of pad "G"s, then doubled letters, *)
(* then single letters; chains that copy the reference displaced by k rows *)
(* with their last m residues replaced by a modified residue.              *)
(***************************************************************************)
Letters == <<"A", "C", "D", "E", "F", "H", "I", "K", "L", "M", "N", "P", "Q", "R",
             "S", "T", "V", "W", "Y">>

fasta_of(pad, pairs, singles) ==
    [i \in 1..pad |-> "G"]
        \o [i \in 1..(2 * pairs) |-> Letters[(i + 1) \div 2]]
        \o [i \in 1..singles |-> Letters[pairs + i]]

Shapes ==
    {<<0, 0, MatchThreshold + 2>>,
     <<0, MatchThreshold + 1, 1>>,
     <<PadLen, 0, MatchThreshold + 1>>}

Mutations == {0, 1, 2}

\* a chain of a displacement and a number of mutated residues
ChainKinds == {0, 1, 2, PadLen} \X Mutations

\* a column "1AKI A" is the tuple of its " "-separated parts
ChainNames == <<(<<"1AKI", "A">>), (<<"1AKI", "B">>), (<<"2LZT", "A">>), (<<"3LZT", "A">>)>>

Accession == "P00698"

OtherAccession == "P61626"

\* str(uniprotids)
RefName == <<"['P00698']">>

chain_of(ref, kind) ==
    LET k == kind[1]
        m == kind[2]
        L == Len(ref)
        last == IF k >= 0 THEN L - k ELSE L
    IN [j \in 1..L |->
           IF (j + k) \in 1..L
           THEN <<IF j > last - m THEN "MSE" ELSE ref[j + k], j + k>>
           ELSE NaN]

matrix_of(shape, kinds) ==
    LET ref == convert_three(fasta_of(shape[1], shape[2], shape[3]))
    IN [index |-> [i \in 1..Len(ref) |-> i - 1],
        columns |-> <<RefName>> \o SubSeq(ChainNames, 1, Len(kinds)),
        data |-> <<[i \in 1..Len(ref) |-> <<ref[i]>>]>>
                    \o [c \in 1..Len(kinds) |-> chain_of(ref, kinds[c])]]

\* column order only decides the order in which chains are handled: kinds are
\* drawn in non-decreasing order
KindLists ==
    LET KindRank(kind) == kind[1] * (Cardinality(Mutations) + 1) + kind[2]
    IN UNION {{ks \in [1..n -> ChainKinds] :
                  \A c \in 1..(n - 1) : KindRank(ks[c]) <= KindRank(ks[c + 1])}
              : n \in 1..MaxChains}

EmptyFrame == [index |-> <<>>, columns |-> <<>>, data |-> <<>>]

NoCifData == [struct_ref_seq |-> <<>>, struct_ref_seq_dif |-> <<>>, chain |-> <<>>,
              chainid |-> <<>>]

NoResult == [score |-> NoTable, log_data |-> [uniprot_id |-> ""], distance |-> NoTable,
             raised |-> ""]

NoArgs == [argv_ok |-> TRUE, uniprot |-> Accession, method |-> "", negative_pdbid |-> <<>>,
           sequence_ratio |-> <<7, 10>>, min_structures |-> 1]

NoJson == [status |-> "", progress |-> -1, error |-> ""]

\* no key beside those every result.json has
NoFields == [progress |-> -1]

\* the parts of the state a run has not reached
Idle ==
    /\ prep_pdblist = <<>>
    /\ seqdata = EmptyFrame
    /\ all_pdblist = NoLists
    /\ norsub_seqdata = EmptyFrame
    /\ result_json = NoJson
    /\ status_json = NoJson
    /\ opened = <<>>
    /\ stderr = <<>>
    /\ exit_code = -1
    /\ plots = FALSE
    /\ error = ""
    /\ cifdata = NoCifData
    /\ mut_judge = ""
    /\ seq = EmptyFrame
    /\ IDs = <<>>
    /\ log = <<>>
    /\ trimsequence = EmptyFrame
    /\ dsa = NoResult
    /\ ca_missing = {}

(***************************************************************************)
(* The UniProt entries and mmCIF files of the runs                         *)
(***************************************************************************)
PdbIds == <<"1AKI", "2LZT", "3LZT", "4LZT", "5LZT">>

\* the reference of the command-line runs: distinct residues
RefLen == MatchThreshold + 2

RefFasta == SubSeq(Letters, 1, RefLen)

\* the resolution property of the k-th PDB reference: "1.50 A", "1.51 A", ... as
\* the tuple of the hundredths its digits spell and of the text after them
dbReference(id, method, beg, end) ==
    [id |-> id, method |-> method,
     resolution |-> IF method = "NMR" THEN NaN ELSE <<150 + index_of(PdbIds, id), " A">>,
     position |-> <<(<<beg, end>>)>>]

entry_of(sequence, refs) ==
    [accession |-> <<Accession>>, sequence |-> sequence, dbReference |-> refs]

\* the rows of pdbx_poly_seq_scheme of a strand that copies residues beg..end of
\* the reference, with residue number mut (0: none) replaced by a modified residue
\* and residue number -mut not observed
strand_rows(strand, beg, end, mut) ==
    [k \in 1..(end - beg + 1) |->
        [mon_id |-> IF k + beg - 1 = mut THEN "MSE"
                    ELSE IF k + beg - 1 = -mut THEN "?"
                    ELSE convert_three(RefFasta)[k + beg - 1],
         seq_num |-> k + beg - 1,
         strand_id |-> strand]]

ref_seq(strand, accession, len) ==
    [strand_id |-> strand, accession |-> accession, seq_align_beg |-> 1, seq_align_end |-> len]

ref_seq_dif(strand, num, db_num, details) ==
    [strand_id |-> strand, seq_num |-> num, db_seq_num |-> db_num, details |-> details]

\* the first residue of the reference the chains of a file of the kind cover
first_residue(kind) == IF kind = "normal1" THEN 2 ELSE 1

file_of(kind) ==
    LET len == RefLen - first_residue(kind) + 1
        one == <<ref_seq("A", Accession, len)>>
        rows(mut) == strand_rows("A", first_residue(kind), RefLen, mut)
        file(st, dif, scheme) ==
            [ok |-> kind # "broken", struct_ref_seq |-> st, struct_ref_seq_dif |-> dif,
             poly_seq_scheme |-> scheme]
    IN CASE kind = "normal2" ->
              file(<<ref_seq("A", Accession, len), ref_seq("B", Accession, len)>>, <<>>,
                   rows(0) \o strand_rows("B", 1, RefLen, 0))
         [] kind = "tagged" ->
              file(one, <<ref_seq_dif("A", "1", "1", "expression tag")>>, rows(1))
         [] kind = "substitution" ->
              file(one, <<ref_seq_dif("A", "5", "5", "engineered mutation")>>, rows(5))
         [] kind = "chimera_eng" ->
              file(<<ref_seq("A", Accession, len), ref_seq("A", Accession, len)>>,
                   <<ref_seq_dif("A", "5", "5", "engineered mutation")>>, rows(5))
         [] kind = "chimera_strand" ->
              file(<<ref_seq("A", Accession, len), ref_seq("A", OtherAccession, len)>>,
                   <<>>, rows(0))
         [] kind = "delins" ->
              file(one, <<ref_seq_dif("A", "5", "5", "insertion"),
                          ref_seq_dif("A", "5", "6", "insertion")>>, rows(0))
         [] kind = "delins_gap" ->
              file(one, <<ref_seq_dif("A", "5", "5", "insertion"),
                          ref_seq_dif("A", "5", "6", "insertion")>>, rows(-5))
         [] kind = "mismatch" -> file(<<ref_seq("A", OtherAccession, len)>>, <<>>, rows(0))
         [] OTHER -> file(one, <<>>, rows(0))

\* a PDB entry of the run: the kind of its file and its method
\* the order of the entries only decides the order of the columns: they are drawn
\* in non-decreasing order
Worlds ==
    LET FileKinds == <<"normal2", "normal1", "shifted", "tagged", "substitution",
                       "chimera_eng", "chimera_strand", "delins", "delins_gap", "mismatch",
                       "broken">>
        PdbKinds == {<<FileKinds[k], "X-ray">> : k \in DOMAIN FileKinds}
                        \cup {<<"normal2", "NMR">>}
        PdbRank(e) ==
            (IF e[2] = "NMR" THEN Len(FileKinds) ELSE 0)
                + (CHOOSE k \in DOMAIN FileKinds : FileKinds[k] = e[1])
    IN UNION {{w \in [1..n -> PdbKinds] :
                  \A k \in 1..(n - 1) : PdbRank(w[k]) <= PdbRank(w[k + 1])}
              : n \in 0..MaxPdb}

\* The first residue of the range the UniProt entry gives for a PDB entry is
\* that of its chains, but for a "shifted" entry, whose chains start one residue
\* before the range.
xml_of(w) ==
    LET range_beg(kind) == IF kind = "shifted" THEN 2 ELSE first_residue(kind)
    IN entry_of(RefFasta,
                [k \in DOMAIN w |->
                    dbReference(PdbIds[k], w[k][2], range_beg(w[k][1]), RefLen)])

mmcif_of(w) ==
    [id \in {PdbIds[k] : k \in DOMAIN w} |->
        file_of(w[CHOOSE k \in DOMAIN w : PdbIds[k] = id][1])]

ArgSets ==
    {[NoArgs EXCEPT !.argv_ok = FALSE]}
        \cup {[NoArgs EXCEPT !.method = m, !.min_structures = n] :
                 m \in {"X-ray", "NMR", ""}, n \in {1, MaxPdb, DefaultMinStructures}}

(***************************************************************************)
(* sort_sequence and the rest of run_DSA                                   *)
(***************************************************************************)
\* sort_sequence lines 52-64
SortStart ==
    /\ pc = "sort_sequence"
    /\ seq' = dropna_ref(map_residue(sequencedata))
    /\ IDs' = disagreeing(seq', seq_ratio)
    /\ pc' = "for_ID"
    /\ UNCHANGED <<uniprotid, sequencedata, seq_ratio, log, trimsequence, ca_missing,
                   chain_threshold, dsa, judgeVars, cliVars, outVars, error>>

\* sort_sequence lines 65-85, one iteration
SortRecover ==
    /\ pc = "for_ID"
    /\ IDs # <<>>
    /\ LET r == recover(sequencedata, seq, uniprotid, Head(IDs))
       IN /\ sequencedata' = r.df
          /\ log' = Append(log, r.entry)
    /\ IDs' = Tail(IDs)
    /\ UNCHANGED <<pc, uniprotid, seq, seq_ratio, trimsequence, ca_missing,
                   chain_threshold, dsa, judgeVars, cliVars, outVars, error>>

\* sort_sequence lines 86-88
SortFinish ==
    /\ pc = "for_ID"
    /\ IDs = <<>>
    /\ trimsequence' = finish(sequencedata, seq_ratio)
    /\ sequencedata' = dropna_ref(sequencedata)
    /\ pc' = "sorted"
    /\ UNCHANGED <<uniprotid, seq, IDs, seq_ratio, log, ca_missing, chain_threshold, dsa,
                   judgeVars, cliVars, outVars, error>>

\* the atom tables of the PDB files of the chains: every residue has a CA row, or
\* the residue of the first row of the first chain has none
AtomTables(trimmed) ==
    {{}} \cup {{<<trimmed.columns[2], seq_num(trimmed.data[2][1])>>} :
                  x \in {y \in {1} : ncols(trimmed) >= 2 /\ nrows(trimmed) >= 1}}

\* run_DSA lines 297-405 on the trimmed matrix: chain_threshold, the UniProt
\* entry fetched at line 284 and the atom tables are read here for the first
\* time, and are drawn from the sets given
analyse_from(thresholds, entries) ==
    /\ pc = "sorted"
    /\ \E threshold \in thresholds, x \in entries, missing \in AtomTables(trimsequence) :
          /\ chain_threshold' = threshold
          /\ xml' = x
          /\ ca_missing' = missing
          /\ dsa' = analyse(args.uniprot, trimsequence, threshold, missing,
                            after_pdblist(UniprotData(x), args.method))
    /\ error' = dsa'.raised
    /\ pc' = IF dsa'.raised # "" THEN "except" ELSE "returned"
    /\ UNCHANGED <<uniprotid, sequencedata, seq, IDs, seq_ratio, log, trimsequence,
                   judgeVars, args, prep_pdblist, seqdata, all_pdblist,
                   norsub_seqdata, outVars>>

(***************************************************************************)
(* dsa_cli.py: main                                                        *)
(***************************************************************************)
\* lines 81-88: the counts, and the object after the calls of pdblist
RECURSIVE method_counts(_, _)
method_counts(unidata, methods) ==
    IF methods = <<>>
    THEN [unidata |-> unidata, counts |-> <<>>]
    ELSE LET m == Head(methods)
             rest == method_counts(after_pdblist(unidata, m), Tail(methods))
         IN [unidata |-> rest.unidata,
             counts |-> (m :> Len(pdblist(unidata, m))) @@ rest.counts]

\* result.json and status.json of a failed run, then sys.exit(1); fields are the
\* keys of result.json beside status, error and uniprot_id
MutFailed(progress, message, fields) ==
    /\ result_json' = [status |-> "failed", progress |-> -1, error |-> message] @@ fields
    /\ status_json' = [status |-> "failed", progress |-> progress, error |-> message]
    /\ opened' = opened \o <<"result.json", "status.json">>
    /\ exit_code' = 1
    /\ pc' = IF progress = 0 THEN "exited" ELSE "except"
failed(progress, message, fields) ==
    /\ result_json' = [status |-> "failed", progress |-> -1, error |-> message] @@ fields
    /\ status_json' = [status |-> "failed", progress |-> progress, error |-> message]
    /\ opened' = opened \o <<"result.json", "status.json">>
    /\ exit_code' = 1
    /\ pc' = "exited"

\* an exception leaves the try block
raise(exception) ==
    /\ error' = exception
    /\ pc' = "except"

\* lines 16-73: argparse ends the process with code 2 when the command line does
\* not parse
MainParseArgs ==
    /\ pc = "main"
    /\ IF args.argv_ok
       THEN /\ seq_ratio' = (args.sequence_ratio[1] * 100) \div args.sequence_ratio[2]
            /\ pc' = "STEP 1/5"
            /\ UNCHANGED exit_code
       ELSE /\ exit_code' = 2
            /\ pc' = "exited"
            /\ UNCHANGED seq_ratio
    /\ UNCHANGED <<uniprotid, sequencedata, seq, IDs, log, trimsequence, ca_missing,
                   chain_threshold, dsa, judgeVars, cliVars, result_json, status_json,
                   opened, stderr, plots, error>>

\* lines 76-164; fetched is whether the UniProt entry could be fetched and parsed
MainStep1 ==
    /\ pc = "STEP 1/5"
    /\ stderr' = Append(stderr, "STEP 1/5")
    /\ \E fetched \in BOOLEAN :
          IF ~fetched
          THEN raise("UniprotData") /\ UNCHANGED fileVars
          ELSE LET all_methods == <<"X-ray", "NMR", "EM">>
                   counted == method_counts(UniprotData(xml), all_methods)
                   unidata == counted.unidata
                   found == without_negative(pdblist(unidata, args.method),
                                             args.negative_pdbid)
               IN IF Len(found) < 1
                  THEN failed(20, "no data",
                              [pdb_counts |-> counted.counts,
                               total_pdb_count |-> sum(counted.counts, DOMAIN counted.counts)])
                       /\ UNCHANGED <<plots, error>>
                  ELSE pc' = "count_pdb" /\ UNCHANGED <<fileVars, error>>
    /\ UNCHANGED <<sortVars, judgeVars, cliVars>>

\* lines 167-169
MainCountPdb ==
    /\ pc = "count_pdb"
    /\ \E fetched \in BOOLEAN :
          IF ~fetched
          THEN raise("UniprotData")
          ELSE /\ count_pdb(xml, args.method, args.negative_pdbid) \in BOOLEAN
               /\ pc' = "STEP 2/5"
               /\ UNCHANGED error
    /\ UNCHANGED <<sortVars, judgeVars, cliVars, outVars>>

\* prep lines 202-222
PrepStart ==
    /\ pc = "STEP 2/5"
    /\ stderr' = Append(stderr, "STEP 2/5")
    /\ \E fetched \in BOOLEAN :
          IF ~fetched
          THEN raise("UniprotData") /\ UNCHANGED <<seqdata, prep_pdblist, all_pdblist>>
          ELSE LET unidata == UniprotData(xml)
                   sequence == convert_three(fasta(unidata))
               IN /\ seqdata' = frame_of(<<str(get_id(unidata))>>,
                                         <<[i \in DOMAIN sequence |-> <<sequence[i]>>]>>)
                  /\ prep_pdblist' = without_negative(pdblist(unidata, args.method),
                                                 args.negative_pdbid)
                  /\ all_pdblist' = NoLists
                  /\ pc' = "for_pdbid"
                  /\ UNCHANGED error
    /\ UNCHANGED <<sortVars, judgeVars, args, xml, norsub_seqdata, fileVars>>

\* prep lines 224-249, one iteration; the download or the parse of a file that is
\* not ok raises in CifData, and getsequence may raise after the verdict is recorded
PrepEntry ==
    /\ pc = "for_pdbid"
    /\ prep_pdblist # <<>>
    /\ LET pdbid == Head(prep_pdblist)
           unidata == after_pdblist(UniprotData(xml), args.method)
           uniprotids == get_id(unidata)
           obj == CifData(mmcif[pdbid])
           verdict == mutationjudge(obj, uniprotids)
           pos == position(unidata, pdbid)
           sq == pad_rows(getsequence(obj, uniprotids, pdbid), pos[1], pos[2],
                          Len(fasta(unidata)))
       IN IF ~mmcif[pdbid].ok
          THEN /\ raise("CifData")
               /\ UNCHANGED <<cifdata, mut_judge, all_pdblist, seqdata, prep_pdblist>>
          ELSE /\ cifdata' = obj
               /\ mut_judge' = verdict
               /\ all_pdblist' = classify(all_pdblist, pdbid, verdict)
               /\ IF ~skipped(verdict) /\ getsequence_raises(obj, uniprotids)
                  THEN raise("IndexError") /\ UNCHANGED <<seqdata, prep_pdblist>>
                  ELSE /\ seqdata' = IF skipped(verdict) THEN seqdata
                                      ELSE concat_columns(seqdata, sq)
                       /\ prep_pdblist' = Tail(prep_pdblist)
                       /\ UNCHANGED <<pc, error>>
    /\ UNCHANGED <<sortVars, mmcif, args, xml, norsub_seqdata, outVars>>

\* prep lines 251-267 and main lines 184-249
MainSelect ==
    /\ pc = "for_pdbid"
    /\ prep_pdblist = <<>>
    /\ \E fetched \in BOOLEAN :
          IF ~fetched
          THEN raise("UniprotData") /\ UNCHANGED <<norsub_seqdata, outVars>>
          ELSE IF TooFew(pdbtuple(all_pdblist), args.min_structures)
          THEN failed(40, "min_structures",
                      [found_structures |-> Len(pdbtuple(all_pdblist)),
                       required_structures |-> args.min_structures])
               /\ UNCHANGED <<norsub_seqdata, plots, stderr, error>>
          ELSE /\ norsub_seqdata' = select_norsub(seqdata, args.uniprot, pdbtuple(all_pdblist))
               /\ stderr' = stderr \o <<"STEP 3/5", "STEP 4/5">>
               /\ pc' = "STEP 4/5"
               /\ UNCHANGED <<fileVars, error>>
    /\ UNCHANGED <<sortVars, judgeVars, args, xml, prep_pdblist, seqdata, all_pdblist>>

\* main lines 251-264 and run_DSA lines 284-295: the call of sort_sequence
MainRunDSA ==
    /\ pc = "STEP 4/5"
    /\ \E fetched \in BOOLEAN :
          IF ~fetched
          THEN raise("UniprotData") /\ UNCHANGED <<uniprotid, sequencedata, chain_threshold>>
          ELSE /\ uniprotid' = str(get_id(UniprotData(xml)))
               /\ sequencedata' = norsub_seqdata
               /\ chain_threshold' = CliChainThreshold
               /\ pc' = "sort_sequence"
               /\ UNCHANGED error
    /\ UNCHANGED <<seq, IDs, seq_ratio, log, trimsequence, ca_missing, dsa, judgeVars,
                   cliVars, outVars>>

\* main lines 266-282
MainCheck ==
    /\ pc = "returned"
    /\ IF empty(dsa.score) \/ "error" \in DOMAIN dsa.log_data
       THEN failed(80, IF "error" \in DOMAIN dsa.log_data THEN dsa.log_data.error
                       ELSE "Analysis failed", NoFields)
       ELSE pc' = "STEP 5/5" /\ UNCHANGED <<result_json, status_json, opened, exit_code>>
    /\ UNCHANGED <<sortVars, judgeVars, cliVars, plots, stderr, error>>

\* main lines 284-297
MainPlots ==
    /\ pc = "STEP 5/5"
    /\ stderr' = Append(stderr, "STEP 5/5")
    /\ plots' = TRUE
    /\ pc' = "result"
    /\ UNCHANGED <<sortVars, judgeVars, cliVars, result_json, status_json, opened,
                   exit_code, error>>

\* main lines 299-338, and the process ends with code 0
MainWrite ==
    /\ pc = "result"
    /\ result_json' = [status |-> "success", progress |-> -1, error |-> "",
                       statistics |-> dsa.log_data,
                       score_summary |-> [total_pairs |-> dsa.score.rows]]
    /\ status_json' = [status |-> "done", progress |-> 100, error |-> ""]
    /\ opened' = opened \o <<"result.json", "status.json">>
    /\ exit_code' = 0
    /\ pc' = "exited"
    /\ UNCHANGED <<sortVars, judgeVars, cliVars, plots, stderr, error>>

\* main lines 340-353
MainExcept ==
    /\ pc = "except"
    /\ failed(0, error, NoFields)
    /\ UNCHANGED <<sortVars, judgeVars, cliVars, plots, stderr, error>>

MainTail == MainCheck \/ MainPlots \/ MainWrite \/ MainExcept

(***************************************************************************)
(* sort_sequence and run_DSA on displaced chains, and what main makes of   *)
(* the result                                                              *)
(***************************************************************************)
SortInit ==
    /\ pc = "sort_sequence"
    /\ uniprotid = RefName
    /\ \E shape \in Shapes, kinds \in KindLists : sequencedata = matrix_of(shape, kinds)
    /\ seq_ratio \in {10, 70}
    /\ chain_threshold = CliChainThreshold
    /\ args = NoArgs
    /\ xml = entry_of(<<>>, <<>>)
    /\ mmcif = <<>>
    /\ Idle

\* run_DSA called with any chain_threshold, for an entry whose PDB references are
\* all X-ray ones or have an NMR one
SortRunDSA ==
    LET SortEntries(nmr) ==
            [k \in DOMAIN PdbIds |->
                dbReference(PdbIds[k], IF PdbIds[k] \in nmr THEN "NMR" ELSE "X-ray", 1, 1)]
    IN analyse_from(0..(MaxChains + 1),
                    {entry_of(<<>>, SortEntries(nmr)) : nmr \in {{}, {"1AKI"}}})

SpecSort ==
    SortInit /\ [][SortStart \/ SortRecover \/ SortFinish \/ SortRunDSA \/ MainTail]_vars

(***************************************************************************)
(* The command-line run                                                    *)
(***************************************************************************)
CliInit ==
    /\ pc = "main"
    /\ args \in ArgSets
    /\ \E w \in Worlds : xml = xml_of(w) /\ mmcif = mmcif_of(w)
    /\ uniprotid = RefName
    /\ sequencedata = EmptyFrame
    /\ seq_ratio = 0
    /\ chain_threshold = CliChainThreshold
    /\ Idle

CliNext ==
    \/ MainParseArgs
    \/ MainStep1
    \/ MainCountPdb
    \/ PrepStart
    \/ PrepEntry
    \/ MainSelect
    \/ MainRunDSA
    \/ SortStart
    \/ SortRecover
    \/ SortFinish
    \/ analyse_from({chain_threshold}, {xml})
    \/ MainTail

SpecCli == CliInit /\ [][CliNext]_vars

(***************************************************************************)
(* CifData and mutationjudge on their own: every small struct_ref_seq and  *)
(* struct_ref_seq_dif table. The order of the rows decides nothing in      *)
(* mutationjudge, so the rows are drawn in one order, and the strands of   *)
(* pdbx_poly_seq_scheme in either order.                                   *)
(***************************************************************************)
Strands == {"A", "B"}

StrandRank(x) == IF x = "A" THEN 0 ELSE 1

\* mutationjudge does not read the alignment columns
StructTables ==
    LET StructRows == [strand_id : Strands, accession : {Accession, OtherAccession},
                       seq_align_beg : {1}, seq_align_end : {1}]
        StructRank(r) ==
            2 * StrandRank(r.strand_id) + (IF r.accession = Accession THEN 0 ELSE 1)
    IN UNION {{t \in [1..n -> StructRows] :
                  \A k \in 1..(n - 1) : StructRank(t[k]) <= StructRank(t[k + 1])}
              : n \in 1..MaxStructRows}

DifTables ==
    LET Details == {"engineered mutation", "microheterogeneity", "insertion",
                    "expression tag"}
        DifRows == [strand_id : Strands, seq_num : {"1", "2"}, db_seq_num : {"1", "2"},
                    details : Details]
        NumRank(x) == IF x = "1" THEN 0 ELSE 1
        DetailsRank(x) ==
            CASE x = "engineered mutation" -> 0
              [] x = "microheterogeneity" -> 1
              [] x = "insertion" -> 2
              [] OTHER -> 3
        DifRank(d) ==
            16 * StrandRank(d.strand_id) + 8 * NumRank(d.seq_num)
                + 4 * NumRank(d.db_seq_num) + DetailsRank(d.details)
    IN UNION {{t \in [1..n -> DifRows] :
                  \A k \in 1..(n - 1) : DifRank(t[k]) <= DifRank(t[k + 1])}
              : n \in 0..MaxDifRows}

JudgeInit ==
    /\ pc = "CifData"
    /\ \E st \in StructTables, dt \in DifTables,
          scheme \in {strand_rows(order[1], 1, 2, 0) \o strand_rows(order[2], 1, 2, 0) :
                         order \in {<<"A", "B">>, <<"B", "A">>}} :
          mmcif = [id \in {"1AKI"} |->
                      [ok |-> TRUE, struct_ref_seq |-> st, struct_ref_seq_dif |-> dt,
                       poly_seq_scheme |-> scheme]]
    /\ args = NoArgs
    /\ xml = entry_of(<<>>, <<>>)
    /\ uniprotid = RefName
    /\ sequencedata = EmptyFrame
    /\ seq_ratio = 0
    /\ chain_threshold = CliChainThreshold
    /\ Idle

\* cifdata = CifData(pdbid, ...)
JudgeConstruct ==
    /\ pc = "CifData"
    /\ cifdata' = CifData(mmcif["1AKI"])
    /\ pc' = "mutationjudge"
    /\ UNCHANGED <<sortVars, mmcif, mut_judge, cliVars, outVars, error>>

\* mut_judge = cifdata.mutationjudge(uniprotids, pdbid, verbose)
JudgeClassify ==
    /\ pc = "mutationjudge"
    /\ mut_judge' = mutationjudge(cifdata, get_id(UniprotData(xml)))
    /\ pc' = "judged"
    /\ UNCHANGED <<sortVars, mmcif, cifdata, cliVars, outVars, error>>

SpecJudge == JudgeInit /\ [][JudgeConstruct \/ JudgeClassify]_vars

(***************************************************************************)
(* getscore and the cis analysis of run_DSA on their own: every small      *)
(* distance table over a few distances. The order of the pair rows decides *)
(* nothing in either, so the rows are drawn in one order.                  *)
(***************************************************************************)
MaxPairRows == 2

\* 3.3 and 3.8
Distances ==
    <<fromhex(<<10, 6, 6, 6, 6, 6, 6, 6, 6, 6, 6, 6, 6>>, 1),
      fromhex(<<14, 6, 6, 6, 6, 6, 6, 6, 6, 6, 6, 6, 6>>, 1)>>

RECURSIVE RowRank(_)
RowRank(row) ==
    IF row = <<>> THEN 0
    ELSE Len(Distances) * RowRank(SubSeq(row, 1, Len(row) - 1)) + row[Len(row)]

DistanceTables ==
    UNION {{[rows |-> n,
             pair |-> <<[r \in 1..n |-> <<1, r + 1>>]>>,
             values |-> [r \in 1..n |-> [c \in 1..chains |-> Distances[t[r][c]]]]]
               : t \in {u \in [1..n -> [1..chains -> DOMAIN Distances]] :
                          \A r \in 1..(n - 1) : RowRank(u[r]) <= RowRank(u[r + 1])}}
           : n \in 1..MaxPairRows, chains \in {2, 3}}

ScoreInit ==
    /\ pc = "getscore"
    /\ \E table \in DistanceTables : dsa = [NoResult EXCEPT !.distance = table]
    \* a threshold of 3.0 or of 3.3, the default
    /\ \E cis_threshold \in {fromhex(<<8, 0, 0, 0, 0, 0, 0, 0, 0, 0, 0, 0, 0>>, 1), Distances[1]},
          proc_cis \in BOOLEAN :
          args = [cis_threshold |-> cis_threshold, proc_cis |-> proc_cis] @@ NoArgs
    /\ xml = entry_of(<<>>, <<>>)
    /\ mmcif = <<>>
    /\ uniprotid = RefName
    /\ sequencedata = EmptyFrame
    /\ seq_ratio = 0
    /\ chain_threshold = CliChainThreshold
    /\ prep_pdblist = <<>>
    /\ seqdata = EmptyFrame
    /\ all_pdblist = NoLists
    /\ norsub_seqdata = EmptyFrame
    /\ result_json = NoJson
    /\ status_json = NoJson
    /\ opened = <<>>
    /\ stderr = <<>>
    /\ exit_code = -1
    /\ plots = FALSE
    /\ error = ""
    /\ cifdata = NoCifData
    /\ mut_judge = ""
    /\ seq = EmptyFrame
    /\ IDs = <<>>
    /\ log = <<>>
    /\ trimsequence = EmptyFrame
    /\ ca_missing = {}

\* run_DSA line 302
RunGetscore ==
    /\ pc = "getscore"
    /\ dsa' = [dsa EXCEPT !.score = getscore(dsa.distance, 0)]
    /\ pc' = "cis"
    /\ UNCHANGED <<uniprotid, sequencedata, seq, IDs, seq_ratio, log, trimsequence,
                   ca_missing, chain_threshold, judgeVars, cliVars, outVars, error>>

\* run_DSA lines 330-399
RunCis ==
    /\ pc = "cis"
    /\ dsa' = [dsa EXCEPT !.log_data =
                   IF args.proc_cis
                   THEN [cis_analysis |-> cis_info(dsa.distance, args.cis_threshold)] @@ @
                   ELSE @]
    /\ pc' = "returned"
    /\ UNCHANGED <<uniprotid, sequencedata, seq, IDs, seq_ratio, log, trimsequence,
                   ca_missing, chain_threshold, judgeVars, cliVars, outVars, error>>

SpecScore == ScoreInit /\ [][RunGetscore \/ RunCis]_vars

(***************************************************************************)
(* sort_sequence on chains that agree with the reference and whose         *)
(* residues repeat a pdb_seq_num or lack one: MaxTrimRows reference rows,  *)
(* one or two chains, each cell of a chain nan or the residue of the       *)
(* reference with one of three numbers.                                    *)
(***************************************************************************)
MaxTrimRows == 2

TrimInit ==
    /\ pc = "sort_sequence"
    /\ uniprotid = RefName
    /\ LET ref == [i \in 1..MaxTrimRows |-> convert_three(Letters)[i]]
           Chains == [1..MaxTrimRows -> {0, 1, 2, 3}]
       IN \E nums \in {<<a>> : a \in Chains} \cup (Chains \X Chains) :
             sequencedata =
                 [index |-> [i \in 1..MaxTrimRows |-> i - 1],
                  columns |-> <<RefName>> \o SubSeq(ChainNames, 1, Len(nums)),
                  data |-> <<[i \in 1..MaxTrimRows |-> <<ref[i]>>]>>
                              \o [c \in 1..Len(nums) |->
                                     [i \in 1..MaxTrimRows |->
                                         IF nums[c][i] = 0 THEN NaN
                                         ELSE <<ref[i], nums[c][i]>>]]]
    /\ seq_ratio \in {10, 70}
    /\ chain_threshold = CliChainThreshold
    /\ args = NoArgs
    /\ xml = entry_of(<<>>, <<>>)
    /\ mmcif = <<>>
    /\ Idle

SpecTrim == TrimInit /\ [][SortStart \/ SortFinish]_vars

(***************************************************************************)
(* getsequence on its own, stage by stage: a file of one strand whose      *)
(* residues carry some of the numbers 1..MaxSliceNum, in order, with or    *)
(* without a deletion descriptor and with up to MaxInsertions insertion    *)
(* descriptors.                                                            *)
(***************************************************************************)
MaxSliceNum == 5

MaxInsertions == 2

ChainInit ==
    /\ pc = "getsequence"
    /\ \E nums \in SUBSET (1..MaxSliceNum) \ {{}}, deleted \in BOOLEAN,
          inserted \in {i \in SUBSET (1..MaxSliceNum) : Cardinality(i) <= MaxInsertions} :
          LET file ==
                  [ok |-> TRUE,
                   struct_ref_seq |-> <<ref_seq("A", Accession, Cardinality(nums))>>,
                   struct_ref_seq_dif |->
                       (IF deleted THEN <<ref_seq_dif("A", "?", "1", "deletion")>> ELSE <<>>)
                           \o Pick([n \in 1..MaxSliceNum |->
                                       ref_seq_dif("A", Numerals[n], "?", "insertion")],
                                   inserted),
                   poly_seq_scheme |->
                       Pick([n \in 1..MaxSliceNum |->
                                [mon_id |-> convert_three(Letters)[n], seq_num |-> n,
                                 strand_id |-> "A"]],
                            nums)]
          IN /\ mmcif = [id \in {"1AKI"} |-> file]
             /\ cifdata = CifData(file)
    /\ args = NoArgs
    /\ xml = entry_of(<<>>, <<>>)
    /\ uniprotid = RefName
    /\ sequencedata = EmptyFrame
    /\ seq_ratio = 0
    /\ chain_threshold = CliChainThreshold
    /\ prep_pdblist = <<>>
    /\ seqdata = EmptyFrame
    /\ all_pdblist = NoLists
    /\ norsub_seqdata = EmptyFrame
    /\ result_json = NoJson
    /\ status_json = NoJson
    /\ opened = <<>>
    /\ stderr = <<>>
    /\ exit_code = -1
    /\ plots = FALSE
    /\ error = ""
    /\ mut_judge = ""
    /\ seq = EmptyFrame
    /\ IDs = <<>>
    /\ log = <<>>
    /\ trimsequence = EmptyFrame
    /\ dsa = NoResult
    /\ ca_missing = {}

\* lines 326-352 for the strand of the file: the slice, and the deletion stage.
\* seq holds the chain as the column it becomes at line 408.
ChainDeletion ==
    /\ pc = "getsequence"
    /\ LET row == cifdata.struct_ref_seq[1]
           chain == SubSeq(cifdata.chain, row.sort_index + row.seq_align_beg,
                           row.sort_index + row.seq_align_end)
       IN seq' = frame_of(<<(<<"1AKI", row.strand_id>>)>>,
                          <<IF SelectSeq(cifdata.struct_ref_seq_dif, is_deletion) # <<>>
                            THEN fill_gaps(chain) ELSE chain>>)
    /\ pc' = "insertion"
    /\ UNCHANGED <<uniprotid, sequencedata, IDs, seq_ratio, log, trimsequence, ca_missing,
                   chain_threshold, dsa, judgeVars, cliVars, outVars, error>>

\* lines 354-364: the insertion stage
ChainInsertion ==
    /\ pc = "insertion"
    /\ LET inserted == SelectSeq(cifdata.struct_ref_seq_dif, is_insertion)
           insertion == [k \in DOMAIN inserted |-> int(inserted[k].seq_num)]
           left == remove_insertions(seq.data[1], insertion, 0, 0, NaN)
       IN /\ seq' = frame_of(seq.columns, <<left.chain>>)
          /\ error' = left.raised
          /\ pc' = IF left.raised = "" THEN "delins" ELSE "raised"
    /\ UNCHANGED <<uniprotid, sequencedata, IDs, seq_ratio, log, trimsequence, ca_missing,
                   chain_threshold, dsa, judgeVars, cliVars, outVars>>

\* lines 366-416: the descriptors left, and the frame returned
ChainReturn ==
    /\ pc = "delins"
    /\ seq' = frame_of(seq.columns,
                       <<edit_chain(seq.data[1],
                                    SelectSeq(cifdata.struct_ref_seq_dif,
                                              LAMBDA d : ~is_deletion(d) /\ ~is_insertion(d)))>>)
    /\ pc' = "returned"
    /\ UNCHANGED <<uniprotid, sequencedata, IDs, seq_ratio, log, trimsequence, ca_missing,
                   chain_threshold, dsa, judgeVars, cliVars, outVars, error>>

SpecChain == ChainInit /\ [][ChainDeletion \/ ChainInsertion \/ ChainReturn]_vars

(***************************************************************************)
(* Properties of sort_sequence (SpecSort)                                  *)
(***************************************************************************)
\* sort_sequence has returned
Sorted == pc \notin {"main", "STEP 1/5", "count_pdb", "STEP 2/5", "for_pdbid", "STEP 4/5",
                     "sort_sequence", "for_ID", "CifData", "mutationjudge", "judged"}

\* the chains handled by the offset recovery
Flagged == {log[k].ID : k \in DOMAIN log}

EntryOf(name) == log[CHOOSE k \in DOMAIN log : log[k].ID = name]

\* the rows of seq that the search for disagreeing chains compares: those where
\* every chain of sufficient coverage is present, less the later ones of equal
\* reference residue
ComparedRows ==
    LET n == nrows(seq)
        present(c) == Cardinality({i \in 1..n : ~isnull(seq.data[c][i])})
        covered == {c \in DOMAIN seq.data : present(c) * 100 >= seq_ratio * n}
        full == {i \in 1..n : \A c \in covered : ~isnull(seq.data[c][i])}
    IN {seq.index[i] : i \in {i \in full : \A j \in full : j < i => seq.data[1][j] # seq.data[1][i]}}

Window == 1..(2 * (ScanLimit - 1))

OffsetNo(i) == IF i % 2 = 1 THEN (i + 1) \div 2 ELSE -(i \div 2)

\* C2: a disagreeing chain is replaced by the chain shifted by the first offset of
\* the order 1, -1, 2, -2, ... whose match count is > 10, and is dropped only if no
\* offset of the window has a match count > 10; an offset whose match count is
\* exactly 10 does not stand in the way of a later one.
C2_FirstOffsetAbove10 ==
    pc = "sorted" =>
        \A k \in DOMAIN log :
            LET e == log[k]
                count(n) == _diff(column(seq, uniprotid), column(seq, e.ID), n)
            IN /\ e.outcome = "shifted" =>
                      /\ count(e.n) > 10
                      /\ \A i \in Window :
                            (OffsetNo(i) = e.n) => \A j \in 1..(i - 1) : count(OffsetNo(j)) <= 10
               /\ e.outcome = "dropped" => \A i \in Window : count(OffsetNo(i)) <= 10

\* C3 (as stated): the offsets evaluated have 1 <= |n| <= 49, and no chain is
\* shifted by an offset with |n| >= 50.
C3_WindowOf49 ==
    \A k \in DOMAIN log :
        /\ \A i \in DOMAIN log[k].tried : Abs(log[k].tried[i]) \in 1..49
        /\ Abs(log[k].n) <= 49

\* C3 (amended): the offsets evaluated for a chain are the first ones of the order
\* 1, -1, 2, -2, ..., 99, -99; the chain is shifted by the last offset evaluated when
\* its match count is > 10; it is dropped only after all 198 offsets, or at an
\* offset whose match count is exactly 10.
C3_WindowOf99 ==
    \A k \in DOMAIN log :
        LET e == log[k]
        IN /\ Len(e.tried) <= 2 * 99
           /\ \A i \in DOMAIN e.tried : e.tried[i] = OffsetNo(i)
           /\ e.outcome = "kept" <=> e.tried = <<>>
           /\ e.outcome = "shifted" => e.n = e.tried[Len(e.tried)] /\ e.unique > 10
           /\ e.outcome = "dropped" => (Len(e.tried) = 2 * 99 /\ e.unique <= 10) \/ e.unique = 10

\* a chain shifted by an offset outside -49..49
C3_Witness ==
    \E k \in DOMAIN log : log[k].outcome = "shifted" /\ Abs(log[k].n) >= 50

(***************************************************************************)
(* Properties of mutationjudge (SpecJudge)                                 *)
(***************************************************************************)
\* rows of struct_ref_seq whose accession is in the accession set
MatchingRows == {k \in DOMAIN cifdata.struct_ref_seq :
                    cifdata.struct_ref_seq[k].accession \in Range(xml.accession)}

\* strands of the chains matching the accession set
MatchingStrands == {cifdata.struct_ref_seq[k].strand_id : k \in MatchingRows}

\* two matching rows with the same (strand_id, accession)
DuplicatedMatchingRows ==
    \E i, j \in MatchingRows :
        /\ i < j
        /\ cifdata.struct_ref_seq[i].strand_id = cifdata.struct_ref_seq[j].strand_id
        /\ cifdata.struct_ref_seq[i].accession = cifdata.struct_ref_seq[j].accession

\* a strand-id occurring more than once in the whole struct_ref_seq
DuplicatedStrandIds ==
    \E i, j \in DOMAIN cifdata.struct_ref_seq :
        i < j /\ cifdata.struct_ref_seq[i].strand_id = cifdata.struct_ref_seq[j].strand_id

\* details of the retained descriptors of the matching chains
MatchingDetails ==
    {cifdata.struct_ref_seq_dif[k].details :
        k \in {d \in DOMAIN cifdata.struct_ref_seq_dif :
                  cifdata.struct_ref_seq_dif[d].strand_id \in MatchingStrands}}

\* some matching chain has two retained descriptors with one seq_num or one db_seq_num
DuplicatedPositions ==
    \E i, j \in DOMAIN cifdata.struct_ref_seq_dif :
        /\ i < j
        /\ cifdata.struct_ref_seq_dif[i].strand_id \in MatchingStrands
        /\ cifdata.struct_ref_seq_dif[i].strand_id = cifdata.struct_ref_seq_dif[j].strand_id
        /\ \/ cifdata.struct_ref_seq_dif[i].seq_num = cifdata.struct_ref_seq_dif[j].seq_num
           \/ cifdata.struct_ref_seq_dif[i].db_seq_num = cifdata.struct_ref_seq_dif[j].db_seq_num

\* C4: a PDB with a chain matching the accession set whose struct_ref_seq has
\* duplicated (strand_id, accession) rows among the matching rows, or a strand-id
\* occurring more than once in the full table, is judged 'chimera' whatever its
\* mutation descriptors are.
C4_ChimeraWhateverDescriptors ==
    (pc = "judged" /\ MatchingRows # {} /\ (DuplicatedMatchingRows \/ DuplicatedStrandIds))
        => mut_judge = "chimera"

\* C5 (as stated): a non-chimera PDB in which a matching chain has two retained
\* descriptors with the same seq_num or db_seq_num is judged 'delins', also when the
\* descriptors include 'engineered mutation' or 'microheterogeneity'.
C5_DelinsWhateverDescriptors ==
    (/\ pc = "judged"
     /\ MatchingRows # {}
     /\ ~DuplicatedMatchingRows
     /\ ~DuplicatedStrandIds
     /\ DuplicatedPositions)
        => mut_judge = "delins"

\* C5 (amended): a non-chimera PDB in which a matching chain has two retained
\* descriptors with the same seq_num or db_seq_num is judged 'delins' provided the
\* descriptors of the matching chains include neither 'engineered mutation' nor
\* 'microheterogeneity'.
C5_DelinsWithoutEarlierVerdict ==
    (/\ pc = "judged"
     /\ MatchingRows # {}
     /\ ~DuplicatedMatchingRows
     /\ ~DuplicatedStrandIds
     /\ DuplicatedPositions
     /\ "engineered mutation" \notin MatchingDetails
     /\ "microheterogeneity" \notin MatchingDetails)
        => mut_judge = "delins"

\* a matching chain whose two descriptors share the db_seq_num only, judged 'delins'
C5_Witness ==
    /\ pc = "judged"
    /\ mut_judge = "delins"
    /\ ~DuplicatedMatchingRows
    /\ ~DuplicatedStrandIds
    /\ DuplicatedPositions
    /\ \A i, j \in DOMAIN cifdata.struct_ref_seq_dif :
          i < j => cifdata.struct_ref_seq_dif[i].seq_num # cifdata.struct_ref_seq_dif[j].seq_num

(***************************************************************************)
(* Properties of the command-line run (SpecCli)                            *)
(***************************************************************************)
\* the PDB entries prep goes through
PrepIds ==
    {xml.dbReference[k].id :
        k \in {k \in DOMAIN xml.dbReference :
                  args.method = "" \/ xml.dbReference[k].method = args.method}}

\* prep has judged the entry
Processed(id) == seqdata # EmptyFrame /\ id \in PrepIds /\ id \notin Range(prep_pdblist)

\* main has made the matrix it hands to run_DSA
Selected == norsub_seqdata # EmptyFrame

\* the strands of the entry's chains that match the accession set
MatchingStrandsOf(id) ==
    {r.strand_id : r \in {r \in Range(mmcif[id].struct_ref_seq) :
                             r.accession \in Range(xml.accession)}}

\* the entry has an 'engineered mutation' descriptor on a matching chain
Engineered(id) ==
    \E d \in Range(mmcif[id].struct_ref_seq_dif) :
        d.details = "engineered mutation" /\ d.strand_id \in MatchingStrandsOf(id)

\* two matching rows of the entry's struct_ref_seq have one (strand_id, accession)
DuplicatedMatchingRowsOf(id) ==
    \E i, j \in DOMAIN mmcif[id].struct_ref_seq :
        /\ i < j
        /\ mmcif[id].struct_ref_seq[i].accession \in Range(xml.accession)
        /\ mmcif[id].struct_ref_seq[i].accession = mmcif[id].struct_ref_seq[j].accession
        /\ mmcif[id].struct_ref_seq[i].strand_id = mmcif[id].struct_ref_seq[j].strand_id

ChainsHanded(id) ==
    \A strand \in MatchingStrandsOf(id) : <<id, strand>> \in Range(norsub_seqdata.columns)

\* C6 (as stated): a PDB with a retained 'engineered mutation' descriptor on a
\* matching chain is classified 'substitution', and its matching chains are among
\* the columns handed to run_DSA.
C6_EngineeredIsSubstitution ==
    \A id \in DOMAIN mmcif :
        (Processed(id) /\ Engineered(id)) =>
            /\ id \in Range(all_pdblist.sub)
            /\ Selected => ChainsHanded(id)

\* C6 (amended): a PDB with a retained 'engineered mutation' descriptor on a
\* matching chain and no duplicated (strand_id, accession) row among its matching
\* struct_ref_seq rows is classified 'substitution', and when main makes the matrix
\* for run_DSA its matching chains are among the columns.
C6_EngineeredUnlessDuplicatedRows ==
    \A id \in DOMAIN mmcif :
        (Processed(id) /\ Engineered(id) /\ ~DuplicatedMatchingRowsOf(id)) =>
            /\ id \in Range(all_pdblist.sub)
            /\ Selected => ChainsHanded(id)

\* the matrix for run_DSA has been made of a run with a 'substitution' PDB
C6_Witness ==
    /\ pc = "STEP 4/5"
    /\ \E id \in DOMAIN mmcif :
          /\ Engineered(id)
          /\ id \in Range(all_pdblist.sub)
          /\ MatchingStrandsOf(id) # {}
          /\ ChainsHanded(id)

\* every seq_num that two descriptors of a matching strand of the entry share is
\* the number of an observed residue of the strand
SharedPositionsObserved(id) ==
    \A d, e \in Range(mmcif[id].struct_ref_seq_dif) :
        (/\ d # e
         /\ d.details \notin Excluded /\ e.details \notin Excluded
         /\ d.strand_id \in MatchingStrandsOf(id)
         /\ d.strand_id = e.strand_id
         /\ d.seq_num = e.seq_num)
            => \E row \in Range(mmcif[id].poly_seq_scheme) :
                  /\ row.strand_id = d.strand_id
                  /\ row.mon_id # "?"
                  /\ Numerals[row.seq_num] = d.seq_num

C8_BrokenFileIsSkipped == ~(pc = "except" /\ error = "CifData")

\* C9: a run that ends with a failure has exit code 1 and has written result.json
\* with status 'failed' and status.json; a run ends with exit code 0 only after
\* writing result.json with status 'success'.
C9_FailureIsReported ==
    pc = "exited" =>
        /\ exit_code = 0 => result_json.status = "success"
        /\ exit_code # 0 =>
              /\ exit_code = 1
              /\ result_json.status = "failed"
              /\ status_json.status # ""

(***************************************************************************)
(* Properties of run_DSA (SpecSort)                                        *)
(***************************************************************************)
\* run_DSA has reached its end
Analysed == pc \in {"returned", "except", "STEP 5/5", "result", "exited"}

\* the rows of the trimmed matrix whose residue has a CA row in every chain
WithCoordinates ==
    {i \in 1..nrows(trimsequence) :
        \A c \in 2..ncols(trimsequence) :
            <<trimsequence.columns[c], seq_num(trimsequence.data[c][i])>> \notin ca_missing}

\* C10: run_DSA computes the distances and the scores exactly when at least
\* chain_threshold chains survive sort_sequence; otherwise it returns empty score
\* and distance tables and a result of uniprot_id and error 'Less than 3 chains',
\* and main then ends the run as failed with progress 80 and no plots.
C10_ChainThreshold ==
    Analysed =>
        LET chains == ncols(trimsequence) - 1
            located == Cardinality(WithCoordinates)
            pairs == (located * (located - 1)) \div 2
        IN /\ chains >= chain_threshold =>
                 /\ "error" \notin DOMAIN dsa.log_data
                 /\ dsa.log_data.chains = chains
                 /\ dsa.score.rows = pairs
                 /\ dsa.distance.rows = pairs
           /\ chains < chain_threshold =>
                 /\ dsa.score.rows = 0
                 /\ dsa.distance.rows = 0
                 /\ dsa.log_data = [uniprot_id |-> args.uniprot, error |-> "Less than 3 chains"]
                 /\ pc # "except"
                 /\ pc = "exited" =>
                       /\ result_json.status = "failed"
                       /\ result_json.error = "Less than 3 chains"
                       /\ status_json.status = "failed"
                       /\ status_json.progress = 80
                       /\ exit_code = 1
                       /\ ~plots

\* a run failed for one chain too few
C10_Witness ==
    /\ pc = "exited"
    /\ ncols(trimsequence) - 1 = chain_threshold - 1
    /\ chain_threshold > 1
    /\ status_json.progress = 80

(***************************************************************************)
(* C11: the min_structures check of main                                   *)
(***************************************************************************)
\* the number of PDB entries prep classified normal or substitution
Found == Len(all_pdblist.nor) + Len(all_pdblist.sub)

\* run_DSA has been called, or main is about to call it
Called == pc = "STEP 4/5" \/ sequencedata # EmptyFrame

\* C11: when prep has returned and the UniProt entry is fetched again, fewer
\* entries classified normal or substitution than min_structures end the run
\* without a call of run_DSA, and result.json then has status 'failed',
\* found_structures that number and required_structures min_structures; with at
\* least min_structures of them run_DSA is called next. found_structures is
\* written in no other case, and run_DSA is never called with fewer.
C11_MinStructures ==
    /\ [](Called => Found >= args.min_structures)
    /\ []("found_structures" \in DOMAIN result_json =>
             /\ result_json.status = "failed"
             /\ result_json.found_structures = Found
             /\ result_json.required_structures = args.min_structures
             /\ result_json.found_structures < result_json.required_structures
             /\ status_json.progress = 40
             /\ exit_code = 1
             /\ sequencedata = EmptyFrame /\ dsa = NoResult)
    /\ [][(pc = "for_pdbid" /\ prep_pdblist = <<>> /\ pc' # "except") =>
             IF Found < args.min_structures
             THEN pc' = "exited" /\ "found_structures" \in DOMAIN result_json'
             ELSE pc' = "STEP 4/5" /\ exit_code' = -1]_vars

C11_Witness ==
    /\ pc = "exited"
    /\ "found_structures" \in DOMAIN result_json
    /\ result_json.found_structures = 2
    /\ result_json.required_structures = MaxPdb

C11_WitnessProceeds ==
    /\ Called
    /\ Found = args.min_structures
    /\ Found > 1
(***************************************************************************)
(* C12: the pair rows of a successful run                                  *)
(***************************************************************************)
\* C12: when result.json has status 'success', score_summary.total_pairs is
\* L' * (L' - 1) / 2 for L' = statistics.length, and the pair rows of the score
\* table are the pairs (i, j), i < j, of the rows of the trimmed matrix in
\* lexicographic order, whether or not every residue of those rows has a CA atom.
C12_TotalPairs ==
    result_json.status = "success" =>
        LET L == result_json.statistics.length
            retained == trimsequence.index
        IN /\ L = Len(retained)
           /\ result_json.score_summary.total_pairs = (L * (L - 1)) \div 2
           /\ dsa.score.pair =
                 [i \in 1..(L - 1) |->
                     [j \in 1..(L - i) |-> <<retained[i] + 1, retained[i + j] + 1>>]]

(***************************************************************************)
(* C13: the average resolution                                             *)
(***************************************************************************)
\* the PDB entries of the chains of the trimmed matrix
RetainedEntries == {trimsequence.columns[c][1] : c \in 2..ncols(trimsequence)}

\* the resolution property of a PDB reference of the UniProt entry, in hundredths;
\* a reference of method NMR has none
Resolutions ==
    [id \in {e.id : e \in {r \in Range(xml.dbReference) : r.method # "NMR"}} |->
        (CHOOSE r \in Range(xml.dbReference) : r.id = id).resolution[1]]

\* C13: when run_DSA is given at least chain_threshold chains it does not fail,
\* also when a retained entry is an NMR one, and statistics.resolution is the mean
\* of the resolutions of the retained entries that have one, rounded half-up to 2
\* decimals, or null when none has.
C13_ResolutionSkipsNMR ==
    (Analysed /\ ncols(trimsequence) - 1 >= chain_threshold) =>
        LET numeric == RetainedEntries \cap DOMAIN Resolutions
            n == Cardinality(numeric)
            total == sum(Resolutions, numeric)
        IN /\ error # "TypeError"
           /\ "resolution" \in DOMAIN dsa.log_data
           /\ IF n = 0 THEN dsa.log_data.resolution = NaN
              ELSE /\ 2 * n * dsa.log_data.resolution <= 2 * total + n
                   /\ 2 * n * dsa.log_data.resolution > 2 * total - n

(***************************************************************************)
(* C14: pdblist and the availability check of main                         *)
(***************************************************************************)
\* the PDB references of the UniProt entry whose method is m, all of them for ""
References(m) == {r \in Range(xml.dbReference) : m = "" \/ r.method = m}

\* C14: the pdb_counts of a 'no data' failure hold for each of X-ray, NMR and EM
\* the number of PDB references of that method, the run fails so exactly when
\* the entry has no reference of the requested --method, and the object main
\* queried lists the references of the method asked of it.
C14_PdblistOfMethod ==
    /\ "pdb_counts" \in DOMAIN result_json =>
          /\ \A m \in {"X-ray", "NMR", "EM"} :
                result_json.pdb_counts[m] = Cardinality(References(m))
          /\ References(args.method) = {}
    /\ pc \in {"count_pdb", "STEP 2/5", "for_pdbid", "STEP 4/5"} =>
          References(args.method) # {}

(***************************************************************************)
(* C20: sort_index after CifData is constructed                            *)
(***************************************************************************)
\* C20: every row of the struct_ref_seq of a constructed CifData has as its
\* sort_index the index in chainid of the first residue of the row's own strand,
\* for either order of the strands in pdbx_poly_seq_scheme.
C20_SortIndexOfOwnStrand ==
    pc \in {"mutationjudge", "judged"} =>
        \A k \in DOMAIN cifdata.struct_ref_seq :
            LET row == cifdata.struct_ref_seq[k]
            IN /\ cifdata.chainid[row.sort_index + 1] = row.strand_id
               /\ \A n \in 1..row.sort_index : cifdata.chainid[n] # row.strand_id

(***************************************************************************)
(* C15: the rows of the ensemble matrix built by prep                      *)
(***************************************************************************)
\* the length of the reference sequence
RefRows == Len(xml.sequence)

\* the chain columns of the ensemble matrix
ChainColumns == {c \in DOMAIN seqdata.columns : Len(seqdata.columns[c]) = 2}

\* the residue range the UniProt entry gives for a PDB entry
RangeOf(id) == (CHOOSE r \in Range(xml.dbReference) : r.id = id).position[1]

\* the residues pdbx_poly_seq_scheme lists for a strand of a PDB entry
ResiduesOf(id, strand) ==
    SelectSeq(mmcif[id].poly_seq_scheme, LAMBDA row : row.strand_id = strand)

\* the cells of a column that hold a residue
Filled(c) == {i \in DOMAIN seqdata.data[c] : ~isnull(seqdata.data[c][i])}

ReferenceCodes == [i \in 1..nrows(trimsequence) |-> residue(trimsequence.data[1][i])]

\* the rows of the matrix, after the offset recovery, in which the reference and
\* every chain that is returned have a residue
CompleteRows ==
    {i \in 1..nrows(sequencedata) :
        \A c \in DOMAIN sequencedata.columns :
            sequencedata.columns[c] \in Range(trimsequence.columns)
                => ~isnull(sequencedata.data[c][i])}

\* C19 as stated: the matrix sort_sequence returns has at most one row for each
\* residue code of the reference.
C19_OneRowPerReferenceCode ==
    Sorted => \A i, j \in DOMAIN ReferenceCodes :
                  ReferenceCodes[i] = ReferenceCodes[j] => i = j

\* C19 amended: the rows whose reference residue repeats an earlier one are left
\* out only of the copy on which the chains are compared with the reference; the
\* matrix returned has every row in which the reference and all the chains
\* returned have a residue, however often a reference residue code occurs.
C19_RepeatedCodesAreReturned ==
    Sorted =>
        /\ trimsequence.index = Pick(sequencedata.index, CompleteRows)
        /\ \A c \in DOMAIN trimsequence.columns :
              trimsequence.data[c]
                  = Pick(column(sequencedata, trimsequence.columns[c]), CompleteRows)

\* a matrix returned with a chain and with two rows of one reference residue code
C19_Witness ==
    /\ Sorted
    /\ ncols(trimsequence) >= 2
    /\ \E i, j \in DOMAIN ReferenceCodes : i < j /\ ReferenceCodes[i] = ReferenceCodes[j]

(***************************************************************************)
(* Properties of getscore and the cis analysis (SpecScore)                 *)
(***************************************************************************)
Scored == pc \in {"cis", "returned"}

Returned == pc = "returned"

AllEqual(values) == \A i \in DOMAIN values : values[i] = values[1]

\* C16: every score row has a std that is not zero, and a row whose distances
\* are equal in all chains has std = 1e-4 and score = that distance / 1e-4.
C16_EqualRowsGetTheFloor ==
    Scored =>
        \A r \in DOMAIN dsa.score.std :
            /\ dsa.score.std[r] # Zero
            /\ AllEqual(dsa.distance.values[r]) =>
                  /\ dsa.score.std[r] = Floor
                  /\ dsa.score.score[r] = [mean |-> dsa.distance.values[r][1], std |-> Floor]

CisKeys == {"cis_dist_mean", "cis_dist_std", "cis_score_mean", "cis_num", "mix", "threshold"}

\* the pair rows with a distance <= the threshold in every chain
AllCisRows ==
    {r \in DOMAIN dsa.distance.values :
        \A c \in DOMAIN dsa.distance.values[r] :
            float_le(dsa.distance.values[r][c], args.cis_threshold)}

\* the pair rows with a distance <= the threshold in at least one chain
CisIndex ==
    {r \in DOMAIN dsa.distance.values :
        \E c \in DOMAIN dsa.distance.values[r] :
            float_le(dsa.distance.values[r][c], args.cis_threshold)}

\* C17: when run_DSA returns with proc_cis enabled, log_data has a cis_analysis
\* block with all of cis_dist_mean, cis_dist_std, cis_score_mean, cis_num, mix
\* and threshold; cis_num counts the rows within the threshold in every chain
\* and threshold is the threshold used.
C17_CisBlockIsComplete ==
    (Returned /\ args.proc_cis) =>
        /\ "cis_analysis" \in DOMAIN dsa.log_data
        /\ CisKeys \subseteq DOMAIN dsa.log_data.cis_analysis
        /\ dsa.log_data.cis_analysis.cis_num = Cardinality(AllCisRows)
        /\ dsa.log_data.cis_analysis.threshold = args.cis_threshold

\* C18: in the cis block, cis_num <= |cis_index| <= total_pairs and
\* cis_num + mix = |cis_index|, cis_index being the pair rows with a distance
\* <= the threshold in at least one chain.
C18_CisCountsPartition ==
    (Returned /\ args.proc_cis) =>
        LET cis == dsa.log_data.cis_analysis
        IN /\ cis.cis_num <= Cardinality(CisIndex)
           /\ Cardinality(CisIndex) <= dsa.score.rows
           /\ cis.cis_num + cis.mix = Cardinality(CisIndex)

\* a table with a row that is cis in every chain, a row that is cis in some
\* chains only, both reported
C18_Witness ==
    /\ Returned
    /\ args.proc_cis
    /\ dsa.log_data.cis_analysis.cis_num = 1
    /\ dsa.log_data.cis_analysis.mix = 1
    /\ Cardinality(CisIndex) = 2
    /\ AllCisRows # {}
    /\ CisIndex \ AllCisRows # {}

(***************************************************************************)
(* Properties of the stages of getsequence (SpecChain)                     *)
(***************************************************************************)
\* the slice of the strand, as line 331 takes it
Slice == cifdata.chain

HasDeletion == SelectSeq(cifdata.struct_ref_seq_dif, is_deletion) # <<>>

InsertedNums ==
    {int(d.seq_num) : d \in {x \in Range(cifdata.struct_ref_seq_dif) : is_insertion(x)}}

Entries(chain) == {x \in Range(chain) : ~isnull(x)}

Stride(k) == seq_num(Slice[k]) - seq_num(Slice[k - 1])

\* C21: after the deletion stage of a chain with a deletion descriptor, every
\* entry of the slice whose stride to the previous entry is not 1 has exactly
\* stride None cells immediately before it, and the entry at index i (from 0)
\* is the one i residues after the first.
C21_GapsFilledInPlace ==
    (pc = "insertion" /\ HasDeletion) =>
        LET chain == seq.data[1]
        IN /\ \A k \in 2..Len(Slice) :
                 Stride(k) # 1 =>
                     \E p \in DOMAIN chain :
                         /\ chain[p] = Slice[k]
                         /\ p - Stride(k) - 1 >= 1
                         /\ \A j \in (p - Stride(k))..(p - 1) : isnull(chain[j])
                         /\ ~isnull(chain[p - Stride(k) - 1])
           /\ \A p \in DOMAIN chain :
                 ~isnull(chain[p]) => seq_num(chain[p]) = seq_num(Slice[1]) + p - 1

\* C22: after the insertion stage, the entries of the chain are the entries of
\* the slice but those whose pdb_seq_num is the seq_num of an insertion
\* descriptor.
C22_InsertionsRemoved ==
    pc = "delins" =>
        Entries(seq.data[1]) = {x \in Entries(Slice) : seq_num(x) \notin InsertedNums}

(***************************************************************************)
(* Properties of trim2_sequence in sort_sequence (SpecTrim)                *)
(***************************************************************************)
\* the matrix of line 86, which line 87 prunes
Step4 == trim_sequence(sequencedata, seq_ratio)

\* the rows of the matrix of line 86 in which some chain repeats the
\* pdb_seq_num of an earlier row
Repeating ==
    {i \in 1..nrows(Step4) :
        \E c \in 2..ncols(Step4) : \E j \in 1..(i - 1) :
            seq_num(Step4.data[c][j]) = seq_num(Step4.data[c][i])}

\* C23: in the matrix sort_sequence returns the pdb_seq_num of each chain
\* column are pairwise distinct, and it is the matrix of line 86 without the
\* rows in which some chain repeats the pdb_seq_num of an earlier row, those
\* rows being removed from every column.
C23_RepeatedNumbersPruned ==
    pc = "sorted" =>
        /\ \A c \in 2..ncols(trimsequence) : \A i, j \in 1..nrows(trimsequence) :
              i < j => seq_num(trimsequence.data[c][i]) # seq_num(trimsequence.data[c][j])
        /\ trimsequence.columns = Step4.columns
        /\ trimsequence.index = Pick(Step4.index, (1..nrows(Step4)) \ Repeating)
        /\ \A c \in 1..ncols(Step4) :
              trimsequence.data[c] = Pick(Step4.data[c], (1..nrows(Step4)) \ Repeating)

\* two chains are returned short of a row in which only the second repeated a
\* number
C23_Witness ==
    /\ pc = "sorted"
    /\ ncols(trimsequence) = 3
    /\ nrows(Step4) = 2
    /\ nrows(trimsequence) = 1
    /\ seq_num(Step4.data[2][1]) # seq_num(Step4.data[2][2])

(***************************************************************************)
(* Properties of the files main writes (SpecCli)                           *)
(***************************************************************************)
\* the process has ended after its command line parsed
Ended == pc = "exited" /\ exit_code # 2

\* C24: a run whose command line parsed opens result.json and status.json for
\* writing once each, in the step that ends the process, and no step follows;
\* so the record of a specific check (progress 20, 40 or 80) is never replaced
\* by the one of the exception handler (progress 0); and status.json has
\* progress 100 only after STEP 1/5 to STEP 5/5 were printed in that order.
C24_WrittenOnceThenExit ==
    /\ [](opened = IF Ended THEN <<"result.json", "status.json">> ELSE <<>>)
    /\ [][pc # "exited"]_vars
    /\ [][status_json.progress \in {20, 40, 80} =>
             status_json' = status_json /\ result_json' = result_json]_vars
    /\ [](status_json.progress = 100 =>
             stderr = <<"STEP 1/5", "STEP 2/5", "STEP 3/5", "STEP 4/5", "STEP 5/5">>)

\* a run has ended with progress 100
C24_Witness ==
    /\ Ended
    /\ exit_code = 0
    /\ status_json.progress = 100
    /\ result_json.status = "success"
    /\ opened = <<"result.json", "status.json">>

====
